---- MODULE Spec2Model ----
\* Streaming-response normalisation of the Ollama / local-LLM providers:
\*   LocalLLMProvider.completions      (specification Spec)
\*   OllamaApiClient.createCompletions and its response chunk transformer
\*                                      (specification SpecClient)
\*   the response chunk transformer given chunks directly
\*                                      (specification SpecTransformer)
\*   LocalLLMProvider.models           (specification SpecModels)
\*   LocalLLMProvider.translate and OllamaProvider.translate
\*                                      (specification SpecTranslates)
\*   completions on contents with thinking tags, OllamaProvider.translate
\*                                      (specification SpecThinking)
\*   the three read loops on bodies with malformed lines
\*                                      (specification SpecMalformed)
\*   completions and LocalLLMProvider.translate on records with an error field
\*                                      (specification SpecErrors)
\*   LocalLLMProvider.translate on one record of any content
\*                                      (specification SpecFilter)
\*   OllamaProvider.translate alone    (specification SpecOllama)
\*   the constructors of the two providers
\*                                      (specification SpecCtor)
\*   OllamaProvider.completions        (specification SpecCompletion)
\*   OllamaProvider.downloadModel, calls interleaved
\*                                      (specification SpecDownload)
\*   two streams whose transformers come from one result of
\*   getResponseChunkTransformer       (specification SpecStreams)
\* In every specification one call runs and the other functions are idle.
\* A response body is a sequence of wire units.  A unit is one byte of the
\* body; the units used are
\*   "{" "}"      start / end of a JSON object
\*   "D"          the member  "done":true
\*   "E"          the member  "error":"e"
\*   "R"          the member  "response":"r"
\*   "M" .. "m"   the member  "message":{"content":"..."} ; the units between
\*                the two are the characters of the content
\*   "a" "b"      one-byte content characters
\*   "h" "l"      lead and continuation byte of one two-byte character "U"
\*   "N"          the escape \n inside a content string
\*   "A" "O"      the member  "annotations":[..]  of type url_citation / other
\*   "C" "c"      the member  "citations":[..]  non-empty / empty
\*   "W"          the member  "web_search":[..]
\*   "S"          the member  "search_info":{"search_results":[..]}
\*   "Q"          the member  "message":{"content":"","annotations":[url_citation]}
\*   "q"          the member  "message":{"content":"","annotations":[other]}
\*   "\n" " "     line feed and blank
\*   "x"          a byte that is no JSON
EXTENDS Integers, Sequences, FiniteSets, TLC

\* ------------------------------------------------------------------ bounds
MaxLines == 2
MaxFires == 1

\* ------------------------------------------------------- string primitives
WS == {" ", "\n"}

RECURSIVE TrimLeft(_)
TrimLeft(s) ==
  IF s # <<>> /\ s[1] \in WS THEN TrimLeft(Tail(s)) ELSE s

RECURSIVE TrimRight(_)
TrimRight(s) ==
  IF s # <<>> /\ s[Len(s)] \in WS THEN TrimRight(SubSeq(s, 1, Len(s) - 1)) ELSE s

\* String.prototype.trim
Trim(s) == TrimRight(TrimLeft(s))

\* String.prototype.indexOf for a one-character needle; 0 when absent
RECURSIVE IndexOf(_, _)
IndexOf(s, c) ==
  IF s = <<>> THEN 0
  ELSE IF s[1] = c THEN 1
  ELSE LET r == IndexOf(Tail(s), c) IN IF r = 0 THEN 0 ELSE r + 1

\* String.prototype.includes
Includes(s, c) == \E i \in 1..Len(s) : s[i] = c

\* String.prototype.split('\n')
RECURSIVE SplitNL(_)
SplitNL(s) ==
  LET i == IndexOf(s, "\n") IN
  IF i = 0 THEN <<s>>
  ELSE <<SubSeq(s, 1, i - 1)>> \o SplitNL(SubSeq(s, i + 1, Len(s)))

\* new TextDecoder().decode(value): every call decodes its chunk on its own, so
\* a lead byte at the end of the chunk and a continuation byte without its lead
\* byte become U+FFFD ("?")
RECURSIVE DecodeChunk(_)
DecodeChunk(b) ==
  IF b = <<>> THEN <<>>
  ELSE IF b[1] = "h"
    THEN IF Len(b) >= 2 /\ b[2] = "l"
           THEN <<"U">> \o DecodeChunk(SubSeq(b, 3, Len(b)))
           ELSE <<"?">> \o DecodeChunk(Tail(b))
  ELSE IF b[1] = "l" THEN <<"?">> \o DecodeChunk(Tail(b))
  ELSE <<b[1]>> \o DecodeChunk(Tail(b))

\* decoder.decode(value, { stream: true }): an incomplete character at the end
\* of the chunk is kept and completed by the next chunk
DecodeStream(pending, b) ==
  LET all == pending \o b IN
  IF all # <<>> /\ all[Len(all)] = "h"
    THEN [text |-> DecodeChunk(SubSeq(all, 1, Len(all) - 1)), pending |-> <<"h">>]
    ELSE [text |-> DecodeChunk(all), pending |-> <<>>]

\* ------------------------------------------------------------- JSON.parse
ContentChars == {"a", "b", "U", "?", "N", " ", "<think>", "</think>"}

NoRecord ==
  [ok |-> FALSE, hasMessage |-> FALSE, content |-> <<>>, done |-> FALSE,
   error |-> "", response |-> "", annotations |-> "none", msgAnnotations |-> "none",
   citations |-> "none", web_search |-> FALSE, search_results |-> FALSE]

EmptyRecord == [NoRecord EXCEPT !.ok = TRUE]

\* the escape \n of a JSON string is the line feed of the parsed string
Unescape(s) == [i \in 1..Len(s) |-> IF s[i] = "N" THEN "\n" ELSE s[i]]

RECURSIVE ParseMembers(_, _)
ParseMembers(s, acc) ==
  IF s = <<>> THEN acc
  ELSE IF s[1] = "D" THEN ParseMembers(Tail(s), [acc EXCEPT !.done = TRUE])
  ELSE IF s[1] = "E" THEN ParseMembers(Tail(s), [acc EXCEPT !.error = "e"])
  ELSE IF s[1] = "R" THEN ParseMembers(Tail(s), [acc EXCEPT !.response = "r"])
  ELSE IF s[1] = "A" THEN ParseMembers(Tail(s), [acc EXCEPT !.annotations = "url_citation"])
  ELSE IF s[1] = "O" THEN ParseMembers(Tail(s), [acc EXCEPT !.annotations = "other"])
  ELSE IF s[1] = "C" THEN ParseMembers(Tail(s), [acc EXCEPT !.citations = "some"])
  ELSE IF s[1] = "c" THEN ParseMembers(Tail(s), [acc EXCEPT !.citations = "empty"])
  ELSE IF s[1] = "W" THEN ParseMembers(Tail(s), [acc EXCEPT !.web_search = TRUE])
  ELSE IF s[1] = "S" THEN ParseMembers(Tail(s), [acc EXCEPT !.search_results = TRUE])
  ELSE IF s[1] = "Q"
    THEN ParseMembers(Tail(s), [acc EXCEPT !.hasMessage = TRUE, !.content = <<>>,
                                           !.msgAnnotations = "url_citation"])
  ELSE IF s[1] = "q"
    THEN ParseMembers(Tail(s), [acc EXCEPT !.hasMessage = TRUE, !.content = <<>>,
                                           !.msgAnnotations = "other"])
  ELSE IF s[1] = "M"
    THEN LET close == IndexOf(s, "m") IN
         IF close = 0 \/ \E i \in 2..(close - 1) : s[i] \notin ContentChars
           THEN NoRecord
           ELSE ParseMembers(SubSeq(s, close + 1, Len(s)),
                  [acc EXCEPT !.hasMessage = TRUE, !.msgAnnotations = "none",
                              !.content = Unescape(SubSeq(s, 2, close - 1))])
  ELSE NoRecord

\* JSON.parse(line) as LocalLLMResponse; ok = FALSE stands for the SyntaxError.
\* White space around the value is allowed, anything else around it is not.
JSONParse(line) ==
  LET t == Trim(line) IN
  IF Len(t) >= 2 /\ t[1] = "{" /\ t[Len(t)] = "}"
    THEN ParseMembers(SubSeq(t, 2, Len(t) - 1), EmptyRecord)
    ELSE NoRecord

\* ------------------------------------------------ LocalLLMProvider: helpers
\* one onResponse(text, done) call
Call(text, done) == [text |-> text, done |-> done]

AdvisoryNotice == <<"[notice: model is slow]">>

ErrorNotice(e) == <<"[error: ", e, "]">>

RECURSIVE FilterLines(_, _, _)
FilterLines(lines, result, isThinking) ==
  IF lines = <<>> THEN result
  ELSE LET line == Head(lines) IN
       IF Includes(line, "<think>")
         THEN FilterLines(Tail(lines), result, TRUE)
         ELSE FilterLines(Tail(lines),
                IF isThinking THEN result ELSE result \o line \o <<"\n">>,
                IF Includes(line, "</think>") THEN FALSE ELSE isThinking)

\* LocalLLMProvider.filterThinkingContent: of the two members of that name the
\* later one is the one the class ends up with
filterThinkingContent(content) == Trim(FilterLines(SplitNL(content), <<>>, FALSE))

handleStreamLine(line, onResponse, isFirstChunk) ==
  LET data == JSONParse(line)
      filteredContent == filterThinkingContent(data.content)
      none == [processed |-> FALSE, calls |-> <<>>]
  IN
  IF Trim(line) = <<>> THEN none
  ELSE IF ~data.ok THEN none
  ELSE IF data.error # "" THEN none
  ELSE IF data.done
    THEN [processed |-> TRUE,
          calls |-> IF onResponse THEN <<Call(<<>>, TRUE)>> ELSE <<>>]
  ELSE IF onResponse /\ data.hasMessage /\ data.content # <<>> /\ filteredContent # <<>>
    THEN [processed |-> TRUE,
          calls |-> <<Call(IF isFirstChunk THEN <<" ">> \o filteredContent
                                            ELSE filteredContent, FALSE)>>]
  ELSE none

\* the inner loop of completions: while (buffer.includes('\n')) { ... }
\* st = [buffer, isFirstChunk, calls]
RECURSIVE DrainLines(_, _)
DrainLines(st, onResponse) ==
  IF ~Includes(st.buffer, "\n") THEN st
  ELSE
    LET newlineIndex == IndexOf(st.buffer, "\n")
        line == SubSeq(st.buffer, 1, newlineIndex - 1)
        result == handleStreamLine(line, onResponse, st.isFirstChunk)
        data == JSONParse(line)
        st1 == [buffer |-> SubSeq(st.buffer, newlineIndex + 1, Len(st.buffer)),
                isFirstChunk |-> IF result.processed THEN FALSE ELSE st.isFirstChunk,
                calls |-> st.calls \o result.calls]
    IN
    IF data.ok /\ data.done THEN st1
    ELSE IF data.ok /\ data.error # "" /\ onResponse
      THEN DrainLines([st1 EXCEPT !.calls = @ \o <<Call(ErrorNotice(data.error), FALSE)>>],
                      onResponse)
    ELSE DrainLines(st1, onResponse)

\* one iteration of the read loop of completions on a chunk that was read
ProcessChunk(st, value, onResponse) ==
  DrainLines([st EXCEPT !.buffer = @ \o DecodeChunk(value)], onResponse)

\* "handle the rest of the buffer" after the read loop of completions
FinalBufferCalls(buf, onResponse) ==
  LET data == JSONParse(buf) IN
  IF Trim(buf) # <<>> /\ onResponse /\ data.ok
    THEN (IF data.response # "" THEN <<Call(<<data.response>>, FALSE)>> ELSE <<>>)
         \o (IF data.error # "" THEN <<Call(ErrorNotice(data.error), FALSE)>> ELSE <<>>)
    ELSE <<>>

\* the user-readable message of a response that is not ok
userFriendlyError(status, errorText) ==
  IF errorText = "model not found" THEN "model not found, pull it"
  ELSE IF status = 404 THEN "endpoint does not exist"
  ELSE IF status = 500 THEN "internal server error"
  ELSE "API error"

\* ------------------------------------------------------- response payloads
LocalLines ==
  { <<"{", "M", "a", "m", "}">>,
    <<"{", "M", "h", "l", "m", "}">>,
    <<"{", "D", "}">>,
    <<"{", "E", "}">>,
    <<"{", "R", "}">>,
    <<"x">>,
    <<>> }

\* records whose content carries thinking tags, and one without; "b" is the
\* text inside a block
ThinkLines ==
  { <<"{", "M", "a", "m", "}">>,
    <<"{", "M", "<think>", "b", "</think>", "a", "m", "}">>,
    <<"{", "M", "<think>", "m", "}">>,
    <<"{", "M", "b", "</think>", "m", "}">> }

RECURSIVE JoinLines(_)
JoinLines(ls) ==
  IF ls = <<>> THEN <<>>
  ELSE IF Len(ls) = 1 THEN ls[1]
  ELSE ls[1] \o <<"\n">> \o JoinLines(Tail(ls))

\* bodies of at most MaxLines lines of L, the last one with or without its "\n"
Payloads(L) ==
  { JoinLines(ls) \o nl :
      ls \in UNION { [1..n -> L] : n \in 1..MaxLines },
      nl \in { <<>>, <<"\n">> } }


\* ------------------------------------------------ OllamaApiClient: helpers
Providers == {"ollama", "grok", "perplexity", "openrouter", "zhipu", "hunyuan"}

\* the providers the streams of the model are run for
StreamProviders == {"ollama", "grok"}

NoWebSearchData == [results |-> "none", source |-> "none"]

\* collectWebSearchData that does not look at hasBeenCollectedWebSearch
collectWebSearchData_Uncollected(chunk, provider, collected) ==
  LET annotations == IF chunk.msgAnnotations # "none" THEN chunk.msgAnnotations
                     ELSE chunk.annotations
      found(results, source) ==
        [data |-> [results |-> results, source |-> source], collected |-> TRUE]
  IN
  IF annotations = "url_citation" THEN found("annotations", "OPENAI")
  ELSE IF provider = "grok" /\ chunk.citations # "none" THEN found("citations", "GROK")
  ELSE IF provider = "perplexity" /\ chunk.citations = "some"
    THEN found("citations", "PERPLEXITY")
  ELSE IF provider = "openrouter" /\ chunk.citations = "some"
    THEN found("citations", "OPENROUTER")
  ELSE IF provider = "zhipu" /\ chunk.web_search THEN found("web_search", "ZHIPU")
  ELSE IF provider = "hunyuan" /\ chunk.search_results
    THEN found("search_results", "HUNYUAN")
  ELSE [data |-> NoWebSearchData, collected |-> collected]

\* collectWebSearchData of getResponseChunkTransformer; collected is the
\* closure variable hasBeenCollectedWebSearch
collectWebSearchData(chunk, provider, collected) ==
  LET annotations == IF chunk.msgAnnotations # "none" THEN chunk.msgAnnotations
                     ELSE chunk.annotations
      found(results, source) ==
        [data |-> [results |-> results, source |-> source], collected |-> TRUE]
  IN
  IF collected THEN [data |-> NoWebSearchData, collected |-> collected]
  ELSE IF annotations = "url_citation" THEN found("annotations", "OPENAI")
  ELSE IF provider = "grok" /\ chunk.citations # "none" THEN found("citations", "GROK")
  ELSE IF provider = "perplexity" /\ chunk.citations = "some"
    THEN found("citations", "PERPLEXITY")
  ELSE IF provider = "openrouter" /\ chunk.citations = "some"
    THEN found("citations", "OPENROUTER")
  ELSE IF provider = "zhipu" /\ chunk.web_search THEN found("web_search", "ZHIPU")
  ELSE IF provider = "hunyuan" /\ chunk.search_results
    THEN found("search_results", "HUNYUAN")
  ELSE [data |-> NoWebSearchData, collected |-> collected]

NoUsage == [prompt_tokens |-> 0, completion_tokens |-> 0, total_tokens |-> 0]

PlaceholderUsage ==
  [prompt_tokens |-> 120, completion_tokens |-> 210, total_tokens |-> 1120]

\* a GenericChunk handed to controller.enqueue
GenericChunk(type, text, websearch, usage) ==
  [type |-> type, text |-> text, llm_web_search |-> websearch, usage |-> usage]

TextDelta(text) == GenericChunk("TEXT_DELTA", text, NoWebSearchData, NoUsage)

\* transform that never collects web search data
transform_NoWebSearch(ollamaChunk, provider, collected) ==
  IF ~ollamaChunk.hasMessage THEN [enqueued |-> <<>>, collected |-> collected]
  ELSE IF ollamaChunk.done
    THEN [enqueued |-> <<TextDelta(ollamaChunk.content),
                        GenericChunk("LLM_RESPONSE_COMPLETE", <<>>, NoWebSearchData,
                                     PlaceholderUsage)>>,
          collected |-> collected]
  ELSE [enqueued |-> <<TextDelta(ollamaChunk.content)>>, collected |-> collected]

\* transform of the response chunk transformer: what it enqueues for one chunk
\* and the value of hasBeenCollectedWebSearch after it
transform(ollamaChunk, provider, collected) ==
  LET web == collectWebSearchData(ollamaChunk, provider, collected)
      webOut == IF web.data # NoWebSearchData
                  THEN <<GenericChunk("LLM_WEB_SEARCH_COMPLETE", <<>>, web.data, NoUsage)>>
                  ELSE <<>>
  IN
  IF ~ollamaChunk.hasMessage THEN [enqueued |-> <<>>, collected |-> collected]
  ELSE IF ollamaChunk.done
    THEN [enqueued |-> webOut \o <<TextDelta(ollamaChunk.content),
                        GenericChunk("LLM_RESPONSE_COMPLETE", <<>>, NoWebSearchData,
                                     PlaceholderUsage)>>,
          collected |-> web.collected]
  ELSE [enqueued |-> webOut \o <<TextDelta(ollamaChunk.content)>>,
        collected |-> web.collected]

\* the records createCompletions yields for the complete lines of a chunk
RECURSIVE YieldLines(_)
YieldLines(lines) ==
  IF lines = <<>> THEN <<>>
  ELSE LET line == Head(lines)
           data == JSONParse(line)
       IN (IF Trim(line) # <<>> /\ data.ok THEN <<data>> ELSE <<>>)
          \o YieldLines(Tail(lines))

\* GeneratorChunk with a decoder that decodes every chunk on its own
GeneratorChunk_NoStream(g, value) ==
  LET lines == SplitNL(g.buffer \o DecodeChunk(value))
  IN [buffer |-> lines[Len(lines)],
      pending |-> <<>>,
      yielded |-> g.yielded \o YieldLines(SubSeq(lines, 1, Len(lines) - 1))]

\* one iteration of the read loop of createCompletions on a chunk that was read
\* g = [buffer, pending, yielded]; pending is the state of the streaming decoder
GeneratorChunk(g, value) ==
  LET dec == DecodeStream(g.pending, value)
      lines == SplitNL(g.buffer \o dec.text)
  IN [buffer |-> lines[Len(lines)],
      pending |-> dec.pending,
      yielded |-> g.yielded \o YieldLines(SubSeq(lines, 1, Len(lines) - 1))]

\* the rest of the buffer after the read loop of createCompletions
GeneratorFlush(buf) ==
  LET data == JSONParse(buf) IN
  IF Trim(buf) # <<>> /\ data.ok THEN <<data>> ELSE <<>>

ClientLines ==
  { <<"{", "M", "a", "m", "}">>,
    <<"{", "M", "h", "l", "m", "}">>,
    <<"{", "M", "a", "m", "D", "}">>,
    <<"{", "D", "}">>,
    <<"{", "Q", "C", "}">>,
    <<"x">>,
    <<>> }

\* ------------------------------------------------------------------- state
VARIABLES
  \* LocalLLMProvider.completions
  pc,                 \* where the call of completions is
  rejection,          \* the message of the error completions rejected with
  onResponse,         \* whether params.onResponse was supplied
  payload,            \* the body the server sends
  pos,                \* how many units of it reader.read() has delivered
  buffer,             \* let buffer
  isFirstChunk,       \* let isFirstChunk
  noResponseTimeout,  \* TRUE while a no-response timer is armed
  fires,              \* how often the no-response timer has fired
  reads,              \* how many reader.read() calls were made
  readSinceArmed,     \* whether lastResponseTime was set after the timer was last armed
  calls,              \* the onResponse calls made so far, in order
  \* OllamaApiClient.createCompletions and the response chunk transformer
  cpc,                \* where the generator of createCompletions is
  aborted,            \* options.signal.aborted
  cpayload,           \* the body the server sends
  cpos,               \* how many units of it reader.read() has delivered
  cbuffer,            \* let buffer
  cpending,           \* bytes of an incomplete character kept by the decoder
  creads,             \* how many reader.read() calls were made
  yielded,            \* the records the generator has yielded, in order
  provider,           \* context.provider.id of the transformer
  hasBeenCollectedWebSearch,
  transformed,        \* how many yielded records transform has been given
  enqueued,           \* the chunks the transformer has enqueued, in order
  \* LocalLLMProvider.translate
  tpc,                \* where the call of translate is
  tOnResponse,        \* whether onResponse was supplied (useStream)
  tpayload,           \* the body the server sends
  tpos,               \* how many units of it reader.read() has delivered
  tbuffer,            \* let buffer
  translatedText,     \* let translatedText
  isThinking,         \* let isThinking
  tcalls,             \* the onResponse calls made so far, in order
  treturned,          \* the text translate resolved with
  \* OllamaProvider.translate
  opc,                \* where the call of translate is
  oOnResponse,        \* whether onResponse was supplied
  oparts,             \* the parts the chat stream has delivered, in order
  oTranslatedText,    \* let translatedText
  ocalls,             \* the onResponse calls made so far, in order
  oreturned,          \* the text translate resolved with
  \* LocalLLMProvider.models
  mpc,                \* where the call of models is
  mdata,              \* what the request of models came to: the failure or the body
  modelList,          \* the list models resolved with
  \* the constructors of LocalLLMProvider and OllamaProvider
  ctorPc,             \* where the construction is
  ctorClass,          \* the class that is constructed
  ctorArg,            \* the config argument of the constructor
  config,             \* this.config
  \* OllamaProvider.completions
  gpc,                \* where the call of completions is
  gOnChunk,           \* whether params.onChunk was supplied
  gOnResponse,        \* whether params.onResponse was supplied
  gchunks,            \* the types of the chunks onChunk was given, in order
  gcalls,             \* the onResponse calls made so far, in order
  grejection,         \* the message of the error completions rejected with
  gstep,              \* the call site of the try block that is next
  \* OllamaProvider.downloadModel
  modelDownloadProgress,  \* the map this.modelDownloadProgress
  downloads,          \* the calls of downloadModel made so far, in order
  \* the transformers built from one result of getResponseChunkTransformer
  streams             \* per stream, the chunks its transformer was given and enqueued

localVars == <<pc, rejection, onResponse, payload, pos, buffer, isFirstChunk, noResponseTimeout,
          fires, reads, readSinceArmed, calls>>

clientVars == <<cpc, aborted, cpayload, cpos, cbuffer, cpending, creads, yielded,
                provider, hasBeenCollectedWebSearch, transformed, enqueued>>

translateVars == <<tpc, tOnResponse, tpayload, tpos, tbuffer, translatedText, isThinking,
                   tcalls, treturned>>

ollamaVars == <<opc, oOnResponse, oparts, oTranslatedText, ocalls, oreturned>>

modelsVars == <<mpc, mdata, modelList>>

ctorVars == <<ctorPc, ctorClass, ctorArg, config>>

completionVars == <<gpc, gOnChunk, gOnResponse, gchunks, gcalls, grejection, gstep>>

downloadVars == <<modelDownloadProgress, downloads>>

providerVars == <<ctorVars, completionVars, downloadVars, streams>>

vars == <<localVars, clientVars, translateVars, ollamaVars, modelsVars, providerVars>>

\* what a step of one program leaves alone
notLocal == <<clientVars, translateVars, ollamaVars, modelsVars, providerVars>>

notClient == <<localVars, translateVars, ollamaVars, modelsVars, providerVars>>

notTranslate == <<localVars, clientVars, ollamaVars, modelsVars, providerVars>>

notOllama == <<localVars, clientVars, translateVars, modelsVars, providerVars>>

notModels == <<localVars, clientVars, translateVars, ollamaVars, providerVars>>

notCtor == <<localVars, clientVars, translateVars, ollamaVars, modelsVars,
             completionVars, downloadVars, streams>>

notCompletion == <<localVars, clientVars, translateVars, ollamaVars, modelsVars,
                   ctorVars, downloadVars, streams>>

notDownload == <<localVars, clientVars, translateVars, ollamaVars, modelsVars,
                 ctorVars, completionVars, streams>>

\* the state of translate of LocalLLMProvider while it is not called
TranslateIdle ==
  /\ tpc = "idle"
  /\ tOnResponse = FALSE
  /\ tpayload = <<>>
  /\ tpos = 0
  /\ tbuffer = <<>>
  /\ translatedText = <<>>
  /\ isThinking = FALSE
  /\ tcalls = <<>>
  /\ treturned = <<>>

\* the state of translate of OllamaProvider while it is not called
OllamaIdle ==
  /\ opc = "idle"
  /\ oOnResponse = FALSE
  /\ oparts = <<>>
  /\ oTranslatedText = <<>>
  /\ ocalls = <<>>
  /\ oreturned = <<>>

\* the state of models of LocalLLMProvider while it is not called
ModelsIdle ==
  /\ mpc = "idle"
  /\ mdata = [kind |-> "none", models |-> <<>>]
  /\ modelList = <<>>

\* the state of the constructors while nothing is constructed
CtorIdle ==
  /\ ctorPc = "idle"
  /\ ctorClass = "none"
  /\ ctorArg = <<>>
  /\ config = <<>>

\* the state of completions of OllamaProvider while it is not called
CompletionIdle ==
  /\ gpc = "idle"
  /\ gOnChunk = FALSE
  /\ gOnResponse = FALSE
  /\ gchunks = <<>>
  /\ gcalls = <<>>
  /\ grejection = ""
  /\ gstep = 0

\* the state of downloadModel while it was never called
DownloadIdle ==
  /\ modelDownloadProgress = <<>>
  /\ downloads = <<>>

\* no transformer was built
StreamsIdle == streams = <<>>

\* the state of everything else of the providers while it is not used
ProviderIdle == CtorIdle /\ CompletionIdle /\ DownloadIdle /\ StreamsIdle

\* ------------------------------------------------- OllamaApiClient: actions
ClientInitOn(bodies) ==
  /\ cpc = "fetch"
  /\ aborted = FALSE
  /\ cpayload \in bodies
  /\ cpos = 0
  /\ cbuffer = <<>>
  /\ cpending = <<>>
  /\ creads = 0
  /\ yielded = <<>>
  /\ provider \in StreamProviders
  /\ hasBeenCollectedWebSearch = FALSE
  /\ transformed = 0
  /\ enqueued = <<>>

ClientInit == ClientInitOn(Payloads(ClientLines))

\* the state of the client while only completions of LocalLLMProvider runs
ClientIdle ==
  /\ cpc = "idle"
  /\ aborted = FALSE
  /\ cpayload = <<>>
  /\ cpos = 0
  /\ cbuffer = <<>>
  /\ cpending = <<>>
  /\ creads = 0
  /\ yielded = <<>>
  /\ provider = "ollama"
  /\ hasBeenCollectedWebSearch = FALSE
  /\ transformed = 0
  /\ enqueued = <<>>

\* the caller aborts options.signal
Abort ==
  /\ cpc \in {"fetch", "loop", "read"}
  /\ ~aborted
  /\ aborted' = TRUE
  /\ UNCHANGED <<cpc, cpayload, cpos, cbuffer, cpending, creads, yielded, provider,
                 hasBeenCollectedWebSearch, transformed, enqueued>>
  /\ UNCHANGED notClient

\* fetch rejects, the response is not ok, or it has no body: the generator throws
ClientRequestFails ==
  /\ cpc = "fetch"
  /\ cpc' = "threw"
  /\ UNCHANGED <<aborted, cpayload, cpos, cbuffer, cpending, creads, yielded, provider,
                 hasBeenCollectedWebSearch, transformed, enqueued>>
  /\ UNCHANGED notClient

\* fetch resolves with an ok response: getReader
ClientOpenBody ==
  /\ cpc = "fetch"
  /\ ~aborted
  /\ cpc' = "loop"
  /\ UNCHANGED <<aborted, cpayload, cpos, cbuffer, cpending, creads, yielded, provider,
                 hasBeenCollectedWebSearch, transformed, enqueued>>
  /\ UNCHANGED notClient

\* The generator is pulled: it runs on from a yield only when the consumer asks
\* for the next record, which it does after transform was given the last one.
Pulled == transformed = Len(yielded)

\* LoopTestPasses with a loop that never looks at the signal
LoopTestPasses_SignalIgnored ==
  /\ cpc = "loop"
  /\ Pulled
  /\ cpc' = "read"
  /\ creads' = creads + 1
  /\ UNCHANGED <<aborted, cpayload, cpos, cbuffer, cpending, yielded, provider,
                 hasBeenCollectedWebSearch, transformed, enqueued>>
  /\ UNCHANGED notClient

\* while (options?.signal?.aborted != true): the test passes, reader.read() is called
LoopTestPasses ==
  /\ cpc = "loop"
  /\ Pulled
  /\ ~aborted
  /\ cpc' = "read"
  /\ creads' = creads + 1
  /\ UNCHANGED <<aborted, cpayload, cpos, cbuffer, cpending, yielded, provider,
                 hasBeenCollectedWebSearch, transformed, enqueued>>
  /\ UNCHANGED notClient

\* the rest of the buffer is yielded and the generator returns
FlushAndReturn ==
  /\ yielded' = yielded \o GeneratorFlush(cbuffer)
  /\ cpc' = "finished"
  /\ UNCHANGED <<aborted, cpayload, cpos, cbuffer, cpending, creads, provider,
                 hasBeenCollectedWebSearch, transformed, enqueued>>
  /\ UNCHANGED notClient

\* the loop test fails because the signal is aborted
LoopTestFails ==
  /\ cpc = "loop"
  /\ Pulled
  /\ aborted
  /\ FlushAndReturn

\* reader.read() resolves with the next k units of the body
ClientReadChunk ==
  /\ cpc = "read"
  /\ cpos < Len(cpayload)
  /\ \E k \in 1..(Len(cpayload) - cpos) :
       LET g == GeneratorChunk([buffer |-> cbuffer, pending |-> cpending,
                                yielded |-> yielded],
                               SubSeq(cpayload, cpos + 1, cpos + k)) IN
       /\ cpos' = cpos + k
       /\ cbuffer' = g.buffer
       /\ cpending' = g.pending
       /\ yielded' = g.yielded
  /\ cpc' = "loop"
  /\ UNCHANGED <<aborted, cpayload, creads, provider, hasBeenCollectedWebSearch,
                 transformed, enqueued>>
  /\ UNCHANGED notClient

\* reader.read() resolves with done
ClientReadDone ==
  /\ cpc = "read"
  /\ cpos = Len(cpayload)
  /\ FlushAndReturn

\* reader.read() rejects (network error, or the aborted signal fails the body)
ClientReadFails ==
  /\ cpc = "read"
  /\ cpc' = "threw"
  /\ UNCHANGED <<aborted, cpayload, cpos, cbuffer, cpending, creads, yielded, provider,
                 hasBeenCollectedWebSearch, transformed, enqueued>>
  /\ UNCHANGED notClient

\* the next yielded record reaches transform of the response chunk transformer
Transform ==
  /\ transformed < Len(yielded)
  /\ LET r == transform(yielded[transformed + 1], provider, hasBeenCollectedWebSearch) IN
       /\ enqueued' = enqueued \o r.enqueued
       /\ hasBeenCollectedWebSearch' = r.collected
  /\ transformed' = transformed + 1
  /\ UNCHANGED <<cpc, aborted, cpayload, cpos, cbuffer, cpending, creads, yielded, provider>>
  /\ UNCHANGED notClient

\* the state of completions of LocalLLMProvider while only the client runs
LocalIdle ==
  /\ pc = "idle"
  /\ rejection = ""
  /\ onResponse = FALSE
  /\ payload = <<>>
  /\ pos = 0
  /\ buffer = <<>>
  /\ isFirstChunk = TRUE
  /\ noResponseTimeout = FALSE
  /\ fires = 0
  /\ reads = 0
  /\ readSinceArmed = FALSE
  /\ calls = <<>>

InitClient == LocalIdle /\ ClientInit /\ TranslateIdle /\ OllamaIdle /\ ModelsIdle /\ ProviderIdle

NextClient ==
  \/ Abort
  \/ ClientRequestFails
  \/ ClientOpenBody
  \/ LoopTestPasses
  \/ LoopTestFails
  \/ ClientReadChunk
  \/ ClientReadDone
  \/ ClientReadFails
  \/ Transform

SpecClient == InitClient /\ [][NextClient]_vars

\* ------------------------------ the response chunk transformer on its own
\* A transformer of getResponseChunkTransformer is given chunks directly.
MaxChunks == 2

TransformerLines ==
  { <<"{", "M", "a", "m", "}">>,
    <<"{", "M", "a", "m", "D", "}">>,
    <<"{", "M", "a", "m", "A", "}">>,
    <<"{", "M", "a", "m", "O", "}">>,
    <<"{", "M", "a", "m", "C", "}">>,
    <<"{", "M", "a", "m", "c", "}">>,
    <<"{", "M", "a", "m", "W", "}">>,
    <<"{", "M", "a", "m", "S", "}">>,
    <<"{", "Q", "}">>,
    <<"{", "q", "A", "}">>,
    <<"{", "M", "a", "m", "A", "C", "}">>,
    <<"{", "q", "C", "}">>,
    <<"{", "A", "}">> }

TransformerInit ==
  /\ cpc = "direct"
  /\ aborted = FALSE
  /\ cpayload = <<>>
  /\ cpos = 0
  /\ cbuffer = <<>>
  /\ cpending = <<>>
  /\ creads = 0
  /\ yielded = <<>>
  /\ provider \in Providers
  /\ hasBeenCollectedWebSearch = FALSE
  /\ transformed = 0
  /\ enqueued = <<>>

\* the stream in front of the transformer hands it the next chunk
FeedChunk ==
  /\ cpc = "direct"
  /\ Pulled
  /\ Len(yielded) < MaxChunks
  /\ \E line \in TransformerLines : yielded' = Append(yielded, JSONParse(line))
  /\ UNCHANGED <<cpc, aborted, cpayload, cpos, cbuffer, cpending, creads, provider,
                 hasBeenCollectedWebSearch, transformed, enqueued>>
  /\ UNCHANGED notClient

InitTransformer == LocalIdle /\ TransformerInit /\ TranslateIdle /\ OllamaIdle /\ ModelsIdle /\ ProviderIdle

NextTransformer ==
  \/ FeedChunk
  \/ Transform

SpecTransformer == InitTransformer /\ [][NextTransformer]_vars

\* -------------------------------------------- LocalLLMProvider.completions

StreamState == [buffer |-> buffer, isFirstChunk |-> isFirstChunk, calls |-> calls]

LocalInitOn(bodies) ==
  /\ pc = "fetch"
  /\ rejection = ""
  /\ onResponse \in BOOLEAN
  /\ payload \in bodies
  /\ pos = 0
  /\ buffer = <<>>
  /\ isFirstChunk = TRUE
  /\ noResponseTimeout = FALSE
  /\ fires = 0
  /\ reads = 0
  /\ readSinceArmed = FALSE
  /\ calls = <<>>

LocalInit == LocalInitOn(Payloads(LocalLines))

\* OuterCatch that rethrows without reporting
OuterCatch_Silent(cs, message) == cs

\* the outer catch of completions: report the error, rethrow
OuterCatch(cs, message) ==
  IF onResponse THEN cs \o <<Call(<<"Error: ", message>>, TRUE)>> ELSE cs

\* fetch rejects: connection refused, or the 100 s abort
FetchFails ==
  /\ pc = "fetch"
  /\ \E message \in {"Failed to fetch", "request timed out"} :
       /\ calls' = OuterCatch(calls, message)
       /\ rejection' = message
  /\ pc' = "rejected"
  /\ UNCHANGED <<onResponse, payload, pos, buffer, isFirstChunk, noResponseTimeout,
                 fires, reads,
                 readSinceArmed>>
  /\ UNCHANGED notLocal

\* fetch resolves with a response that is not ok
ResponseNotOk ==
  /\ pc = "fetch"
  /\ \E status \in {400, 404, 500}, errorText \in {"model not found", "other"} :
       LET msg == userFriendlyError(status, errorText) IN
       /\ calls' = OuterCatch(IF onResponse
                                THEN calls \o <<Call(<<"error: ", msg>>, TRUE)>>
                                ELSE calls, msg)
       /\ rejection' = msg
  /\ pc' = "rejected"
  /\ UNCHANGED <<onResponse, payload, pos, buffer, isFirstChunk, noResponseTimeout,
                 fires, reads,
                 readSinceArmed>>
  /\ UNCHANGED notLocal

\* fetch resolves with an ok response that has no body
ResponseNoBody ==
  /\ pc = "fetch"
  /\ calls' = OuterCatch(calls, "Response body is empty")
  /\ rejection' = "Response body is empty"
  /\ pc' = "rejected"
  /\ UNCHANGED <<onResponse, payload, pos, buffer, isFirstChunk, noResponseTimeout,
                 fires, reads,
                 readSinceArmed>>
  /\ UNCHANGED notLocal

\* fetch resolves with an ok response: getReader, setupNoResponseTimeout
OpenBody ==
  /\ pc = "fetch"
  /\ pc' = "reading"
  /\ noResponseTimeout' = TRUE
  /\ readSinceArmed' = FALSE
  /\ UNCHANGED <<rejection, onResponse, payload, pos, buffer, isFirstChunk, fires, reads, calls>>
  /\ UNCHANGED notLocal

\* reader.read() resolves with the next k units of the body
ReadChunk ==
  /\ pc = "reading"
  /\ pos < Len(payload)
  /\ \E k \in 1..(Len(payload) - pos) :
       LET st == ProcessChunk(StreamState, SubSeq(payload, pos + 1, pos + k), onResponse) IN
       /\ pos' = pos + k
       /\ buffer' = st.buffer
       /\ isFirstChunk' = st.isFirstChunk
       /\ calls' = st.calls
  /\ reads' = reads + 1
  /\ readSinceArmed' = TRUE
  /\ UNCHANGED <<pc, rejection, onResponse, payload, noResponseTimeout, fires>>
  /\ UNCHANGED notLocal

\* ReadDone that leaves the no-response timer armed
ReadDone_TimerLeft ==
  /\ pc = "reading"
  /\ pos = Len(payload)
  /\ reads' = reads + 1
  /\ calls' = calls \o FinalBufferCalls(buffer, onResponse)
                    \o (IF onResponse THEN <<Call(<<>>, TRUE)>> ELSE <<>>)
  /\ pc' = "resolved"
  /\ UNCHANGED <<rejection, onResponse, payload, pos, buffer, isFirstChunk, fires,
                 noResponseTimeout,
                 readSinceArmed>>
  /\ UNCHANGED notLocal

\* reader.read() resolves with done: rest of the buffer, clear the timer, finally
ReadDone ==
  /\ pc = "reading"
  /\ pos = Len(payload)
  /\ reads' = reads + 1
  /\ calls' = calls \o FinalBufferCalls(buffer, onResponse)
                    \o (IF onResponse THEN <<Call(<<>>, TRUE)>> ELSE <<>>)
  /\ noResponseTimeout' = FALSE
  /\ pc' = "resolved"
  /\ UNCHANGED <<rejection, onResponse, payload, pos, buffer, isFirstChunk, fires,
                 readSinceArmed>>
  /\ UNCHANGED notLocal

\* reader.read() rejects: catch (streamError) rethrows, finally, outer catch
ReadFails ==
  /\ pc = "reading"
  /\ reads' = reads + 1
  /\ calls' = OuterCatch(IF onResponse THEN calls \o <<Call(<<>>, TRUE)>> ELSE calls,
                         "read failed")
  /\ rejection' = "read failed"
  /\ pc' = "rejected"
  /\ UNCHANGED <<onResponse, payload, pos, buffer, isFirstChunk, noResponseTimeout, fires,
                 readSinceArmed>>
  /\ UNCHANGED notLocal

\* the callback of the no-response timer runs: notice, setupNoResponseTimeout
TimerFires ==
  /\ noResponseTimeout
  /\ fires < MaxFires
  /\ fires' = fires + 1
  /\ calls' = IF onResponse THEN calls \o <<Call(AdvisoryNotice, FALSE)>> ELSE calls
  /\ noResponseTimeout' = TRUE
  /\ readSinceArmed' = FALSE
  /\ UNCHANGED <<pc, rejection, onResponse, payload, pos, buffer, isFirstChunk, reads>>
  /\ UNCHANGED notLocal

Init == LocalInit /\ ClientIdle /\ TranslateIdle /\ OllamaIdle /\ ModelsIdle /\ ProviderIdle

Next ==
  \/ FetchFails
  \/ ResponseNotOk
  \/ ResponseNoBody
  \/ OpenBody
  \/ ReadChunk
  \/ ReadDone
  \/ ReadFails
  \/ TimerFires


Spec == Init /\ [][Next]_vars

\* ---------------------------------------------- LocalLLMProvider.translate
TranslateLines ==
  { <<"{", "M", "a", "m", "}">>,
    <<"{", "M", "<think>", "b", "m", "}">>,
    <<"{", "M", "b", "</think>", "m", "}">>,
    <<"{", "D", "}">>,
    <<"{", "E", "}">>,
    <<"x">>,
    <<>> }

\* translateLine that reports a line that is no JSON to the callback
translateLine_ReportsBadLine(st, line) ==
  LET data == JSONParse(line)
      content == data.content
      thinking == st.isThinking \/ Includes(content, "<think>")
  IN
  IF Trim(line) = <<>> THEN st
  ELSE IF ~data.ok THEN [st EXCEPT !.calls = Append(@, Call(ErrorNotice("e"), FALSE))]
  ELSE IF data.error # "" THEN st
  ELSE IF data.done THEN [st EXCEPT !.calls = Append(@, Call(st.text, TRUE))]
  ELSE IF data.hasMessage /\ content # <<>>
    THEN [st EXCEPT
            !.text = IF thinking THEN @ ELSE @ \o content,
            !.calls = IF thinking THEN @ ELSE Append(@, Call(st.text \o content, FALSE)),
            !.isThinking = IF Includes(content, "</think>") THEN FALSE ELSE thinking]
  ELSE st

\* one line of the read loop of translate; st = [buffer, text, isThinking, calls]
translateLine(st, line) ==
  LET data == JSONParse(line)
      content == data.content
      thinking == st.isThinking \/ Includes(content, "<think>")
  IN
  IF Trim(line) = <<>> THEN st
  ELSE IF ~data.ok THEN st
  ELSE IF data.error # "" THEN st
  ELSE IF data.done THEN [st EXCEPT !.calls = Append(@, Call(st.text, TRUE))]
  ELSE IF data.hasMessage /\ content # <<>>
    THEN [st EXCEPT
            !.text = IF thinking THEN @ ELSE @ \o content,
            !.calls = IF thinking THEN @ ELSE Append(@, Call(st.text \o content, FALSE)),
            !.isThinking = IF Includes(content, "</think>") THEN FALSE ELSE thinking]
  ELSE st

\* the inner loop of translate: while (buffer.includes('\n')) { ... }
RECURSIVE translateDrain(_)
translateDrain(st) ==
  IF ~Includes(st.buffer, "\n") THEN st
  ELSE LET newlineIndex == IndexOf(st.buffer, "\n") IN
       translateDrain(
         translateLine([st EXCEPT !.buffer = SubSeq(@, newlineIndex + 1, Len(@))],
                       SubSeq(st.buffer, 1, newlineIndex - 1)))

\* "handle the rest of the buffer" after the read loop of translate
translateFinalBuffer(st) ==
  LET data == JSONParse(st.buffer) IN
  IF Trim(st.buffer) # <<>> /\ data.ok /\ data.hasMessage /\ data.content # <<>>
    THEN [st EXCEPT !.text = @ \o data.content,
                    !.calls = Append(@, Call(st.text \o data.content, FALSE))]
    ELSE st

TranslateState ==
  [buffer |-> tbuffer, text |-> translatedText, isThinking |-> isThinking, calls |-> tcalls]

TranslateInitOn(bodies) ==
  /\ tpc = "fetch"
  /\ tOnResponse \in BOOLEAN
  /\ tpayload \in bodies
  /\ tpos = 0
  /\ tbuffer = <<>>
  /\ translatedText = <<>>
  /\ isThinking = FALSE
  /\ tcalls = <<>>
  /\ treturned = <<>>

TranslateInit == TranslateInitOn(Payloads(TranslateLines))

\* fetch rejects, the response is not ok, or a streamed response has no body:
\* the outer catch logs and rethrows
TranslateRequestFails ==
  /\ tpc = "fetch"
  /\ tpc' = "rejected"
  /\ UNCHANGED <<tOnResponse, tpayload, tpos, tbuffer, translatedText, isThinking, tcalls,
                 treturned>>
  /\ UNCHANGED notTranslate

\* without onResponse: response.json(), the filtered content is returned
TranslateWhole ==
  /\ tpc = "fetch"
  /\ ~tOnResponse
  /\ LET data == JSONParse(DecodeChunk(tpayload)) IN
     IF data.ok
       THEN /\ treturned' = filterThinkingContent(data.content)
            /\ tpc' = "resolved"
       ELSE /\ treturned' = treturned
            /\ tpc' = "rejected"
  /\ tpos' = Len(tpayload)
  /\ UNCHANGED <<tOnResponse, tpayload, tbuffer, translatedText, isThinking, tcalls>>
  /\ UNCHANGED notTranslate

\* with onResponse: fetch resolves with an ok response, getReader
TranslateOpenBody ==
  /\ tpc = "fetch"
  /\ tOnResponse
  /\ tpc' = "reading"
  /\ UNCHANGED <<tOnResponse, tpayload, tpos, tbuffer, translatedText, isThinking, tcalls,
                 treturned>>
  /\ UNCHANGED notTranslate

\* reader.read() resolves with the next k units of the body
TranslateReadChunk ==
  /\ tpc = "reading"
  /\ tpos < Len(tpayload)
  /\ \E k \in 1..(Len(tpayload) - tpos) :
       LET st == translateDrain([TranslateState EXCEPT
                   !.buffer = @ \o DecodeChunk(SubSeq(tpayload, tpos + 1, tpos + k))]) IN
       /\ tpos' = tpos + k
       /\ tbuffer' = st.buffer
       /\ translatedText' = st.text
       /\ isThinking' = st.isThinking
       /\ tcalls' = st.calls
  /\ UNCHANGED <<tpc, tOnResponse, tpayload, treturned>>
  /\ UNCHANGED notTranslate

\* reader.read() resolves with done: rest of the buffer, the final call, return
TranslateReadDone ==
  /\ tpc = "reading"
  /\ tpos = Len(tpayload)
  /\ LET st == translateFinalBuffer(TranslateState) IN
       /\ translatedText' = st.text
       /\ tcalls' = Append(st.calls, Call(st.text, TRUE))
       /\ treturned' = st.text
  /\ tpc' = "resolved"
  /\ UNCHANGED <<tOnResponse, tpayload, tpos, tbuffer, isThinking>>
  /\ UNCHANGED notTranslate

\* reader.read() rejects: both catch blocks rethrow
TranslateReadFails ==
  /\ tpc = "reading"
  /\ tpc' = "rejected"
  /\ UNCHANGED <<tOnResponse, tpayload, tpos, tbuffer, translatedText, isThinking, tcalls,
                 treturned>>
  /\ UNCHANGED notTranslate

NextTranslate ==
  \/ TranslateRequestFails
  \/ TranslateWhole
  \/ TranslateOpenBody
  \/ TranslateReadChunk
  \/ TranslateReadDone
  \/ TranslateReadFails

\* ------------------------------------------------ OllamaProvider.translate
\* The chat stream of the ollama client delivers parts that are parsed already.
\* A content is a sequence of characters; a tag is one character of it.
MaxParts == 2

\* the closing tag of each opening tag of the regular expression
TagClose ==
  [t \in {"<thinking>", "<think>", "<translate_input>"} |->
     IF t = "<thinking>" THEN "</thinking>"
     ELSE IF t = "<think>" THEN "</think>"
     ELSE "</translate_input>"]

\* content.replace(regex, ''): every leftmost, shortest stretch from an opening
\* tag to its closing tag is removed; a tag without its partner stays
RECURSIVE RemoveTagged(_)
RemoveTagged(s) ==
  IF s = <<>> THEN <<>>
  ELSE IF s[1] \in DOMAIN TagClose /\ Includes(Tail(s), TagClose[s[1]])
    THEN RemoveTagged(SubSeq(s, IndexOf(Tail(s), TagClose[s[1]]) + 2, Len(s)))
    ELSE <<s[1]>> \o RemoveTagged(Tail(s))

\* ollamaFilterThinkingContent without the fallback to a single space
ollamaFilterThinkingContent_NoBlank(content) == Trim(RemoveTagged(content))

\* OllamaProvider.filterThinkingContent
ollamaFilterThinkingContent(content) ==
  IF content = <<>> THEN <<" ">>
  ELSE IF Trim(RemoveTagged(content)) = <<>> THEN <<" ">>
  ELSE Trim(RemoveTagged(content))

\* a ChatResponse of the ollama client
Part(hasMessage, content) ==
  [EmptyRecord EXCEPT !.hasMessage = hasMessage, !.content = content]

OllamaParts ==
  { Part(FALSE, <<>>),
    Part(TRUE, <<>>),
    Part(TRUE, <<"a">>),
    Part(TRUE, <<"a", " ">>),
    Part(TRUE, <<"<think>">>),
    Part(TRUE, <<"b", "</think>">>),
    Part(TRUE, <<"<think>", "b", "</think>", "a">>),
    Part(TRUE, <<"<thinking>", "b", "</thinking>">>) }

\* translatedText || ' '
OrBlank(text) == IF text = <<>> THEN <<" ">> ELSE text

OllamaInit ==
  /\ opc = "chat"
  /\ oOnResponse \in BOOLEAN
  /\ oparts = <<>>
  /\ oTranslatedText = <<>>
  /\ ocalls = <<>>
  /\ oreturned = <<>>

\* ollamaClient.chat rejects: catch, handleNetworkError throws
OllamaChatFails ==
  /\ opc = "chat"
  /\ opc' = "rejected"
  /\ UNCHANGED <<oOnResponse, oparts, oTranslatedText, ocalls, oreturned>>
  /\ UNCHANGED notOllama

\* without onResponse: chat resolves with the whole response
OllamaChatResponse ==
  /\ opc = "chat"
  /\ ~oOnResponse
  /\ \E response \in OllamaParts :
       /\ oparts' = <<response>>
       /\ oreturned' = IF response.hasMessage /\ response.content # <<>>
                         THEN OrBlank(ollamaFilterThinkingContent(response.content))
                         ELSE <<" ">>
  /\ opc' = "resolved"
  /\ UNCHANGED <<oOnResponse, oTranslatedText, ocalls>>
  /\ UNCHANGED notOllama

\* with onResponse: chat resolves with the stream
OllamaChatStream ==
  /\ opc = "chat"
  /\ oOnResponse
  /\ opc' = "streaming"
  /\ UNCHANGED <<oOnResponse, oparts, oTranslatedText, ocalls, oreturned>>
  /\ UNCHANGED notOllama

\* the stream delivers a part: one iteration of for await
OllamaPart ==
  /\ opc = "streaming"
  /\ Len(oparts) < MaxParts
  /\ \E part \in OllamaParts :
       LET content == ollamaFilterThinkingContent(part.content) IN
       /\ oparts' = Append(oparts, part)
       /\ IF part.hasMessage /\ part.content # <<>> /\ content # <<>>
            THEN /\ oTranslatedText' = oTranslatedText \o content
                 /\ ocalls' = Append(ocalls, Call(content, FALSE))
            ELSE UNCHANGED <<oTranslatedText, ocalls>>
  /\ UNCHANGED <<opc, oOnResponse, oreturned>>
  /\ UNCHANGED notOllama

\* the stream ends: the final call, return
OllamaStreamEnds ==
  /\ opc = "streaming"
  /\ ocalls' = Append(ocalls, Call(OrBlank(oTranslatedText), TRUE))
  /\ oreturned' = OrBlank(oTranslatedText)
  /\ opc' = "resolved"
  /\ UNCHANGED <<oOnResponse, oparts, oTranslatedText>>
  /\ UNCHANGED notOllama

\* the stream fails: catch, handleNetworkError throws
OllamaStreamFails ==
  /\ opc = "streaming"
  /\ opc' = "rejected"
  /\ UNCHANGED <<oOnResponse, oparts, oTranslatedText, ocalls, oreturned>>
  /\ UNCHANGED notOllama

NextOllama ==
  \/ OllamaChatFails
  \/ OllamaChatResponse
  \/ OllamaChatStream
  \/ OllamaPart
  \/ OllamaStreamEnds
  \/ OllamaStreamFails

\* ------------------------------------------------- LocalLLMProvider.models
MaxModels == 2
MaxSize == 2

\* the elements of the models array of a response of /api/tags; null stands
\* for an element that is no object
LocalModels ==
  [null : {FALSE}, name : {"llama", "qwen"}, size : 0..MaxSize, completed : 0..MaxSize]
    \cup {[null |-> TRUE, name |-> "", size |-> 0, completed |-> 0]}

RECURSIVE SeqsUpTo(_, _)
SeqsUpTo(S, n) ==
  IF n = 0 THEN {<<>>}
  ELSE LET shorter == SeqsUpTo(S, n - 1) IN
       shorter \cup {Append(q, x) : q \in {r \in shorter : Len(r) = n - 1}, x \in S}

\* the bodies response.json() can resolve with
ModelsData ==
  {[kind |-> k, models |-> <<>>] : k \in {"null", "nomodels", "notarray"}}
    \cup {[kind |-> "array", models |-> ms] : ms \in SeqsUpTo(LocalModels, MaxModels)}

\* Math.round((completed / size) * 100)
Progress(model) ==
  IF model.size > 0 THEN (200 * model.completed + model.size) \div (2 * model.size) ELSE 0

getDefaultModel ==
  [id |-> "defaultModel", status |-> "unknown", size |-> 0, completed |-> 0, progress |-> 0]

\* one element of data.models.map(...)
ModelOf(model) ==
  [id |-> model.name, status |-> "listed", size |-> model.size,
   completed |-> model.completed, progress |-> Progress(model)]

\* modelsOf that returns the mapped list as it is
modelsOf_NoFallback(data) ==
  IF data.kind \in {"null", "nomodels", "notarray"} THEN <<getDefaultModel>>
  ELSE IF \E i \in 1..Len(data.models) : data.models[i].null THEN <<getDefaultModel>>
  ELSE [i \in 1..Len(data.models) |-> ModelOf(data.models[i])]

\* what models returns for a body that was parsed: a TypeError (data is null,
\* an element is no object) is caught like every other error
modelsOf(data) ==
  IF data.kind \in {"null", "nomodels", "notarray"} THEN <<getDefaultModel>>
  ELSE IF \E i \in 1..Len(data.models) : data.models[i].null THEN <<getDefaultModel>>
  ELSE IF Len(data.models) > 0 THEN [i \in 1..Len(data.models) |-> ModelOf(data.models[i])]
  ELSE <<getDefaultModel>>

ModelsInit ==
  /\ mpc = "fetch"
  /\ mdata = [kind |-> "none", models |-> <<>>]
  /\ modelList = <<>>

\* fetch rejects, or the 10 s timer aborts it: catch
ModelsFetchFails ==
  /\ mpc = "fetch"
  /\ \E k \in {"failed", "timeout"} : mdata' = [kind |-> k, models |-> <<>>]
  /\ modelList' = <<getDefaultModel>>
  /\ mpc' = "resolved"
  /\ UNCHANGED notModels

\* the response is not ok: throw, catch
ModelsNotOk ==
  /\ mpc = "fetch"
  /\ mdata' = [kind |-> "notok", models |-> <<>>]
  /\ modelList' = <<getDefaultModel>>
  /\ mpc' = "resolved"
  /\ UNCHANGED notModels

\* the response is ok: response.json() is awaited
ModelsOk ==
  /\ mpc = "fetch"
  /\ mpc' = "json"
  /\ UNCHANGED <<mdata, modelList>>
  /\ UNCHANGED notModels

\* response.json() rejects: catch
ModelsJsonFails ==
  /\ mpc = "json"
  /\ mdata' = [kind |-> "nojson", models |-> <<>>]
  /\ modelList' = <<getDefaultModel>>
  /\ mpc' = "resolved"
  /\ UNCHANGED notModels

\* response.json() resolves with the body
ModelsJson ==
  /\ mpc = "json"
  /\ \E data \in ModelsData :
       /\ mdata' = data
       /\ modelList' = modelsOf(data)
  /\ mpc' = "resolved"
  /\ UNCHANGED notModels

InitModels == LocalIdle /\ ClientIdle /\ TranslateIdle /\ OllamaIdle /\ ModelsInit /\ ProviderIdle

NextModels ==
  \/ ModelsFetchFails
  \/ ModelsNotOk
  \/ ModelsOk
  \/ ModelsJsonFails
  \/ ModelsJson

SpecModels == InitModels /\ [][NextModels]_vars

\* ------------------------------------------- the two thinking-tag filters
\* completions of LocalLLMProvider on records with thinking tags, or translate
\* of OllamaProvider
InitThinking ==
  \/ LocalInitOn(Payloads(ThinkLines))
       /\ ClientIdle /\ TranslateIdle /\ OllamaIdle /\ ModelsIdle /\ ProviderIdle
  \/ LocalIdle /\ ClientIdle /\ TranslateIdle /\ OllamaInit /\ ModelsIdle /\ ProviderIdle

NextThinking ==
  \/ Next
  \/ NextOllama

SpecThinking == InitThinking /\ [][NextThinking]_vars

\* ------------------------------------------------ the two translate functions
InitTranslates ==
  \/ LocalIdle /\ ClientIdle /\ TranslateInit /\ OllamaIdle /\ ModelsIdle /\ ProviderIdle
  \/ LocalIdle /\ ClientIdle /\ TranslateIdle /\ OllamaInit /\ ModelsIdle /\ ProviderIdle

NextTranslates ==
  \/ NextTranslate
  \/ NextOllama

SpecTranslates == InitTranslates /\ [][NextTranslates]_vars

\* --------------------------------- the three read loops on malformed lines
\* Bodies made of a line that is no JSON, a line that is cut off, a text
\* record and a done record.
MalformedLines ==
  { <<"x">>,
    <<"{", "M", "a", "m">>,
    <<"{", "M", "a", "m", "}">>,
    <<"{", "D", "}">> }

InitMalformed ==
  \/ LocalInitOn(Payloads(MalformedLines))
       /\ ClientIdle /\ TranslateIdle /\ OllamaIdle /\ ModelsIdle /\ ProviderIdle
  \/ ClientInitOn(Payloads(MalformedLines))
       /\ LocalIdle /\ TranslateIdle /\ OllamaIdle /\ ModelsIdle /\ ProviderIdle
  \/ TranslateInitOn(Payloads(MalformedLines))
       /\ LocalIdle /\ ClientIdle /\ OllamaIdle /\ ModelsIdle /\ ProviderIdle

NextMalformed ==
  \/ Next
  \/ NextClient
  \/ NextTranslate

SpecMalformed == InitMalformed /\ [][NextMalformed]_vars

\* ------------------------------- the two read loops on records with errors
\* completions or translate of LocalLLMProvider on bodies whose records carry
\* an error field, alone, with done = true, or with a message
ErrorLines ==
  { <<"{", "E", "}">>,
    <<"{", "E", "D", "}">>,
    <<"{", "M", "a", "m", "E", "}">>,
    <<"{", "M", "a", "m", "}">> }

InitErrors ==
  \/ LocalInitOn(Payloads(ErrorLines))
       /\ ClientIdle /\ TranslateIdle /\ OllamaIdle /\ ModelsIdle /\ ProviderIdle
  \/ TranslateInitOn(Payloads(ErrorLines))
       /\ LocalIdle /\ ClientIdle /\ OllamaIdle /\ ModelsIdle /\ ProviderIdle

NextErrors ==
  \/ Next
  \/ NextTranslate

SpecErrors == InitErrors /\ [][NextErrors]_vars

\* ------------------------------------ the whole-line filter on any content
\* translate of LocalLLMProvider on a body of one record whose content is any
\* sequence of at most MaxContent characters, line feeds and tags
MaxContent == 4

FilterChars == {"a", "N", "<think>", "</think>"}

FilterBodies ==
  {<<"{", "M">> \o c \o <<"m", "}">> : c \in SeqsUpTo(FilterChars, MaxContent)}

InitFilter ==
  TranslateInitOn(FilterBodies) /\ LocalIdle /\ ClientIdle /\ OllamaIdle /\ ModelsIdle /\ ProviderIdle

SpecFilter == InitFilter /\ [][NextTranslate]_vars

\* ------------------------------------------ OllamaProvider.translate alone
InitOllama == LocalIdle /\ ClientIdle /\ TranslateIdle /\ OllamaInit /\ ModelsIdle /\ ProviderIdle

SpecOllama == InitOllama /\ [][NextOllama]_vars

\* ------------------------------------------------------- the constructors
\* A field of the config argument is absent (undefined) or present with a
\* value.  Temperatures are counted in tenths.
Absent == [present |-> FALSE, str |-> "", num |-> 0]

Str(v) == [present |-> TRUE, str |-> v, num |-> 0]

Num(n) == [present |-> TRUE, str |-> "", num |-> n]

DefaultApiBaseUrl == "http://localhost:11434"

DefaultMaxTokens == 2000

DefaultTemperature == 7

DefaultModel(class) == IF class = "LocalLLMProvider" THEN "llama3.2" ELSE "Ollama"

\* a || b for a string field: b when a is undefined or ''
StrOr(a, b) == IF a.present /\ a.str # "" THEN a.str ELSE b

\* a || b for a number field: b when a is undefined or 0
NumOr(a, b) == IF a.present /\ a.num # 0 THEN a.num ELSE b

\* this.config as the constructor of the class builds it
ConfigOf(class, arg) ==
  [apiBaseUrl   |-> StrOr(arg.apiBaseUrl, DefaultApiBaseUrl),
   defaultModel |-> StrOr(arg.defaultModel, DefaultModel(class)),
   maxTokens    |-> NumOr(arg.maxTokens, DefaultMaxTokens),
   temperature  |-> NumOr(arg.temperature, DefaultTemperature)]

ProviderClasses == {"LocalLLMProvider", "OllamaProvider"}

\* the largest number supplied for maxTokens and temperature
MaxNumber == 2

StrArgs(v) == {Absent, Str(""), Str(v)}

NumArgs == {Absent} \cup {Num(n) : n \in 0..MaxNumber}

ConfigArgs ==
  [apiBaseUrl : StrArgs("http://host:1"), defaultModel : StrArgs("qwen"),
   maxTokens : NumArgs, temperature : NumArgs]

CtorInit ==
  /\ ctorPc = "new"
  /\ ctorClass \in ProviderClasses
  /\ ctorArg \in ConfigArgs
  /\ config = <<>>
  /\ CompletionIdle /\ DownloadIdle /\ StreamsIdle

\* new LocalLLMProvider(provider, config) / new OllamaProvider(provider, config)
Construct ==
  /\ ctorPc = "new"
  /\ config' = ConfigOf(ctorClass, ctorArg)
  /\ ctorPc' = "built"
  /\ UNCHANGED <<ctorClass, ctorArg>>
  /\ UNCHANGED notCtor

InitCtor ==
  LocalIdle /\ ClientIdle /\ TranslateIdle /\ OllamaIdle /\ ModelsIdle /\ CtorInit

SpecCtor == InitCtor /\ [][Construct]_vars

\* ---------------------------------------------- OllamaProvider.completions
\* the call sites of the try block, in order: the chunks given to onChunk,
\* the two onResponse calls and the await of the delay
CompletionSites ==
  << [kind |-> "chunk", type |-> "BLOCK_CREATED"],
     [kind |-> "chunk", type |-> "LLM_RESPONSE_CREATED"],
     [kind |-> "chunk", type |-> "LLM_RESPONSE_IN_PROGRESS"],
     [kind |-> "chunk", type |-> "TEXT_DELTA"],
     [kind |-> "response", type |-> "partial"],
     [kind |-> "await", type |-> "delay"],
     [kind |-> "chunk", type |-> "TEXT_COMPLETE"],
     [kind |-> "chunk", type |-> "LLM_RESPONSE_COMPLETE"],
     [kind |-> "chunk", type |-> "BLOCK_COMPLETE"],
     [kind |-> "response", type |-> "complete"] >>

FixedResponse == <<"fixed response">>

\* what a callback of the consumer can throw: an Error with a message, or a
\* value that is no Error
ThrownValues ==
  { [isError |-> TRUE, message |-> "Failed to fetch"],
    [isError |-> TRUE, message |-> "ECONNREFUSED"],
    [isError |-> TRUE, message |-> "callback failed"],
    [isError |-> FALSE, message |-> "thrown string"] }

\* handleNetworkError of OllamaProvider: every path of it throws
ollamaHandleNetworkError(error) ==
  IF error.isError /\ error.message = "Failed to fetch"
    THEN [thrown |-> TRUE, message |-> "Unable to connect to Ollama server"]
  ELSE IF error.isError /\ error.message = "ECONNREFUSED"
    THEN [thrown |-> TRUE, message |-> "Connection to Ollama server refused"]
  ELSE [thrown |-> TRUE, message |-> error.message]

ErrorMessageOf(error) == IF error.isError THEN error.message ELSE "Unknown error"

\* the callback of the current site is one the consumer supplied
SiteHasCallback ==
  LET site == CompletionSites[gstep] IN
  \/ site.kind = "chunk" /\ gOnChunk
  \/ site.kind = "response" /\ gOnResponse

CompletionInit ==
  /\ gpc = "running"
  /\ gOnChunk \in BOOLEAN
  /\ gOnResponse \in BOOLEAN
  /\ gchunks = <<>>
  /\ gcalls = <<>>
  /\ grejection = ""
  /\ gstep = 1
  /\ CtorIdle /\ DownloadIdle /\ StreamsIdle

\* the current site of the try block is passed: its callback, when supplied,
\* is called and returns; after the last site completions resolves
CompletionStep ==
  /\ gpc = "running"
  /\ LET site == CompletionSites[gstep] IN
       /\ gchunks' = IF site.kind = "chunk" /\ gOnChunk
                       THEN Append(gchunks, site.type) ELSE gchunks
       /\ gcalls' = IF site.kind = "response" /\ gOnResponse
                      THEN Append(gcalls, Call(FixedResponse, site.type = "complete"))
                      ELSE gcalls
  /\ IF gstep = Len(CompletionSites)
       THEN gpc' = "resolved" /\ gstep' = gstep
       ELSE gpc' = gpc /\ gstep' = gstep + 1
  /\ UNCHANGED <<gOnChunk, gOnResponse, grejection>>
  /\ UNCHANGED notCompletion

\* the callback of the current site throws: the catch block runs
CompletionThrows ==
  /\ gpc = "running"
  /\ SiteHasCallback
  /\ \E error \in ThrownValues :
       LET h == ollamaHandleNetworkError(error) IN
       IF h.thrown
         THEN /\ grejection' = h.message
              /\ UNCHANGED <<gchunks, gcalls>>
         ELSE /\ gchunks' = IF gOnChunk THEN Append(gchunks, "ERROR") ELSE gchunks
              /\ gcalls' = IF gOnResponse
                             THEN Append(gcalls, Call(<<"Error: ", ErrorMessageOf(error)>>, TRUE))
                             ELSE gcalls
              /\ grejection' = error.message
  /\ gpc' = "rejected"
  /\ UNCHANGED <<gOnChunk, gOnResponse, gstep>>
  /\ UNCHANGED notCompletion

InitCompletion ==
  LocalIdle /\ ClientIdle /\ TranslateIdle /\ OllamaIdle /\ ModelsIdle /\ CompletionInit

NextCompletion == CompletionStep \/ CompletionThrows

SpecCompletion == InitCompletion /\ [][NextCompletion]_vars

\* -------------------------------------------- OllamaProvider.downloadModel
\* A status of a part of the pull stream is a sequence of characters: "p" is
\* a letter, "0" and "5" are digits, "%" is the percent sign.
MaxDownloads == 2

MaxStatuses == 1

ModelIds == {"m1", "m2"}

PartStatuses == { <<>>, <<"p">>, <<"0", "%">>, <<"p", "5", "0", "%">> }

IsDigit(ch) == ch \in {"0", "5"}

DigitValue(ch) == IF ch = "5" THEN 5 ELSE 0

\* the positions of the percent signs that follow a digit
PercentAfterDigit(status) ==
  {j \in 2..Len(status) : status[j] = "%" /\ IsDigit(status[j - 1])}

\* the start of the run of digits that ends at position e
RECURSIVE DigitRunStart(_, _)
DigitRunStart(status, e) ==
  IF e > 1 /\ IsDigit(status[e - 1]) THEN DigitRunStart(status, e - 1) ELSE e

\* parseInt(digits, 10)
RECURSIVE parseInt(_)
parseInt(digits) ==
  IF digits = <<>> THEN 0
  ELSE 10 * parseInt(SubSeq(digits, 1, Len(digits) - 1)) + DigitValue(digits[Len(digits)])

\* part.status.match(/(\d+)%/)?.[1] : the digits of the leftmost match, or
\* no match
MatchPercent(status) ==
  IF PercentAfterDigit(status) = {} THEN [matched |-> FALSE, digits |-> <<>>]
  ELSE LET j == CHOOSE x \in PercentAfterDigit(status) :
                   \A y \in PercentAfterDigit(status) : x <= y
       IN [matched |-> TRUE, digits |-> SubSeq(status, DigitRunStart(status, j - 1), j - 1)]

\* Map.has, Map.set, Map.delete
MapHas(map, key) == key \in DOMAIN map

MapSet(map, key, value) ==
  [k \in (DOMAIN map) \cup {key} |-> IF k = key THEN value ELSE map[k]]

MapDelete(map, key) == [k \in (DOMAIN map) \ {key} |-> map[k]]

\* isModelDownloading that never sees a download
isModelDownloading_Never(map, modelId) == FALSE

isModelDownloading(map, modelId) == MapHas(map, modelId)

\* a call of downloadModel: "pulling" while ollamaClient.pull is awaited,
\* "streaming" while the parts of the stream are awaited
DownloadCall(modelId, onProgress, at) ==
  [modelId |-> modelId, onProgress |-> onProgress, pc |-> at, parts |-> 0,
   reported |-> <<>>]

InFlight(call) == call.pc \in {"pulling", "streaming"}

DownloadInit ==
  /\ modelDownloadProgress = <<>>
  /\ downloads = <<>>
  /\ CtorIdle /\ CompletionIdle /\ StreamsIdle

\* downloadModel(modelId, onProgress) is called and runs up to its first await
DownloadModel ==
  /\ Len(downloads) < MaxDownloads
  /\ \E modelId \in ModelIds, onProgress \in BOOLEAN :
       IF isModelDownloading(modelDownloadProgress, modelId)
         THEN /\ downloads' = Append(downloads, DownloadCall(modelId, onProgress, "returned"))
              /\ UNCHANGED modelDownloadProgress
         ELSE /\ modelDownloadProgress' = MapSet(modelDownloadProgress, modelId, 0)
              /\ downloads' = Append(downloads, DownloadCall(modelId, onProgress, "pulling"))
  /\ UNCHANGED notDownload

\* ollamaClient.pull resolves with the stream
PullResolves ==
  /\ \E i \in 1..Len(downloads) :
       /\ downloads[i].pc = "pulling"
       /\ downloads' = [downloads EXCEPT ![i].pc = "streaming"]
  /\ UNCHANGED modelDownloadProgress
  /\ UNCHANGED notDownload

\* ollamaClient.pull rejects: the catch block
PullFails ==
  /\ \E i \in 1..Len(downloads) :
       /\ downloads[i].pc = "pulling"
       /\ modelDownloadProgress' = MapDelete(modelDownloadProgress, downloads[i].modelId)
       /\ downloads' = [downloads EXCEPT ![i].pc = "rejected"]
  /\ UNCHANGED notDownload

\* the stream delivers a part and the body of the loop runs
DownloadPart ==
  /\ \E i \in 1..Len(downloads), status \in PartStatuses :
       LET call == downloads[i]
           m == MatchPercent(status)
           progress == parseInt(m.digits)
       IN /\ call.pc = "streaming"
          /\ call.parts < MaxStatuses
          /\ IF status # <<>> /\ m.matched
               THEN /\ modelDownloadProgress' =
                         MapSet(modelDownloadProgress, call.modelId, progress)
                    /\ downloads' =
                         [downloads EXCEPT ![i].parts = @ + 1,
                                           ![i].reported =
                                             IF call.onProgress THEN Append(@, progress) ELSE @]
               ELSE /\ downloads' = [downloads EXCEPT ![i].parts = @ + 1]
                    /\ UNCHANGED modelDownloadProgress
  /\ UNCHANGED notDownload

\* the stream delivers a part with a percentage and onProgress throws: the
\* entry is set, the callback is called and the catch block runs
DownloadProgressThrows ==
  /\ \E i \in 1..Len(downloads), status \in PartStatuses :
       LET call == downloads[i]
           m == MatchPercent(status)
       IN /\ call.pc = "streaming"
          /\ call.parts < MaxStatuses
          /\ status # <<>> /\ m.matched /\ call.onProgress
          /\ modelDownloadProgress' =
               MapDelete(MapSet(modelDownloadProgress, call.modelId, parseInt(m.digits)),
                         call.modelId)
          /\ downloads' = [downloads EXCEPT ![i].parts = @ + 1,
                                            ![i].reported = Append(@, parseInt(m.digits)),
                                            ![i].pc = "rejected"]
  /\ UNCHANGED notDownload

\* the stream ends: the entry of the model is deleted and the call resolves
DownloadStreamEnds ==
  /\ \E i \in 1..Len(downloads) :
       /\ downloads[i].pc = "streaming"
       /\ modelDownloadProgress' = MapDelete(modelDownloadProgress, downloads[i].modelId)
       /\ downloads' = [downloads EXCEPT ![i].pc = "resolved"]
  /\ UNCHANGED notDownload

\* the stream fails and the entry of the model stays
DownloadStreamFails_KeepsEntry ==
  /\ \E i \in 1..Len(downloads) :
       /\ downloads[i].pc = "streaming"
       /\ downloads' = [downloads EXCEPT ![i].pc = "rejected"]
  /\ UNCHANGED modelDownloadProgress
  /\ UNCHANGED notDownload

\* the stream fails: the catch block
DownloadStreamFails ==
  /\ \E i \in 1..Len(downloads) :
       /\ downloads[i].pc = "streaming"
       /\ modelDownloadProgress' = MapDelete(modelDownloadProgress, downloads[i].modelId)
       /\ downloads' = [downloads EXCEPT ![i].pc = "rejected"]
  /\ UNCHANGED notDownload

InitDownload ==
  LocalIdle /\ ClientIdle /\ TranslateIdle /\ OllamaIdle /\ ModelsIdle /\ DownloadInit

NextDownload ==
  \/ DownloadModel
  \/ PullResolves
  \/ PullFails
  \/ DownloadPart
  \/ DownloadProgressThrows
  \/ DownloadStreamEnds
  \/ DownloadStreamFails

SpecDownload == InitDownload /\ [][NextDownload]_vars

\* ------------- two streams and one result of getResponseChunkTransformer
\* The function getResponseChunkTransformer returns is called once per stream
\* with the context of the stream; let hasBeenCollectedWebSearch belongs to
\* the one call of getResponseChunkTransformer.
MaxStreams == 2

MaxGiven == 1

StreamLines ==
  { <<"{", "M", "a", "m", "}">>,
    <<"{", "M", "a", "m", "D", "}">>,
    <<"{", "M", "a", "m", "C", "}">>,
    <<"{", "Q", "}">> }

StreamsInit ==
  /\ ClientIdle
  /\ streams = <<>>
  /\ CtorIdle /\ CompletionIdle /\ DownloadIdle

\* the returned function is called with the context of one more stream
BuildTransformer ==
  /\ Len(streams) < MaxStreams
  /\ \E p \in StreamProviders :
       streams' = Append(streams, [provider |-> p, given |-> <<>>, enqueued |-> <<>>])
  /\ UNCHANGED <<localVars, clientVars, translateVars, ollamaVars, modelsVars,
                 ctorVars, completionVars, downloadVars>>

\* transform of the transformer of one stream is given a chunk
StreamTransform ==
  /\ \E i \in 1..Len(streams), line \in StreamLines :
       LET chunk == JSONParse(line)
           r == transform(chunk, streams[i].provider, hasBeenCollectedWebSearch)
       IN /\ Len(streams[i].given) < MaxGiven
          /\ streams' = [streams EXCEPT ![i].given = Append(@, chunk),
                                        ![i].enqueued = @ \o r.enqueued]
          /\ hasBeenCollectedWebSearch' = r.collected
  /\ UNCHANGED <<cpc, aborted, cpayload, cpos, cbuffer, cpending, creads, yielded, provider,
                 transformed, enqueued>>
  /\ UNCHANGED <<localVars, translateVars, ollamaVars, modelsVars,
                 ctorVars, completionVars, downloadVars>>

InitStreams ==
  LocalIdle /\ TranslateIdle /\ OllamaIdle /\ ModelsIdle /\ StreamsInit

NextStreams == BuildTransformer \/ StreamTransform

SpecStreams == InitStreams /\ [][NextStreams]_vars

\* ================================================================== claims
\* the number of calls with done = true
NumDone(cs) == Cardinality({i \in 1..Len(cs) : cs[i].done})

\* the lines of a body, and whether one of them is a record with done = true
BodyLines(p) == SplitNL(DecodeChunk(p))

BodyHasDone(p) ==
  \E i \in 1..Len(BodyLines(p)) :
    JSONParse(BodyLines(p)[i]).ok /\ JSONParse(BodyLines(p)[i]).done

FetchFailureMessages == {"Failed to fetch", "request timed out"}

NotOkMessages ==
  {userFriendlyError(st, tx) : st \in {400, 404, 500}, tx \in {"model not found", "other"}}

\* C1: completions, successful response whose body has a record with done=true
\* and then ends: onResponse is called with done=true exactly once.
C1_DoneExactlyOnce ==
  (pc = "resolved" /\ onResponse /\ BodyHasDone(payload)) => NumDone(calls) = 1

\* C2: completions: once onResponse was called with done=true, no further
\* onResponse call is made for that stream, on any exit path and from the
\* no-response timer.
C2_NothingAfterDone ==
  [][(\E i \in 1..Len(calls) : calls[i].done) => calls' = calls]_vars

\* C3: completions: if reader.read() fails, the consumer receives exactly one
\* call with done=true, and that call carries the error.
C3_ReadFailureOneErrorTerminal ==
  (pc = "rejected" /\ rejection = "read failed" /\ onResponse)
    => /\ NumDone(calls) = 1
       /\ \A i \in 1..Len(calls) :
            calls[i].done => calls[i].text = <<"Error: ", "read failed">>

\* C4: completions: a response that is not ok yields exactly one onResponse
\* call, a terminal error call, and no read of the body stream is made.
C4_NotOkOneCall ==
  (pc = "rejected" /\ rejection \in NotOkMessages /\ onResponse)
    => /\ Len(calls) = 1
       /\ calls[1].done
       /\ reads = 0

\* C5: completions: when the body ends without any record having done=true
\* (an empty body included), onResponse receives exactly one call with
\* done=true and it is the last call.
C5_EndWithoutDone ==
  (pc = "resolved" /\ onResponse /\ ~BodyHasDone(payload))
    => /\ NumDone(calls) = 1
       /\ calls[Len(calls)].done

C5_Witness ==
  /\ pc = "resolved" /\ onResponse /\ ~BodyHasDone(payload)
  /\ Len(calls) >= 3
  /\ fires > 0

\* C6: completions: when fetch itself fails (connection refused, or the abort
\* after 100 s), onResponse receives exactly one call; it has done=true and
\* carries the error message, and no text call precedes it.
C6_FetchFailureOneCall ==
  (pc = "rejected" /\ rejection \in FetchFailureMessages /\ onResponse)
    => calls = <<Call(<<"Error: ", rejection>>, TRUE)>>

C6_Witness ==
  /\ pc = "rejected" /\ rejection = "request timed out" /\ onResponse
  /\ Len(calls) = 1

\* the calls completions makes for a body that arrives as one chunk
UnsplitCalls(p, cb) ==
  LET st == IF p = <<>> THEN [buffer |-> <<>>, isFirstChunk |-> TRUE, calls |-> <<>>]
            ELSE ProcessChunk([buffer |-> <<>>, isFirstChunk |-> TRUE, calls |-> <<>>],
                              p, cb)
  IN st.calls \o FinalBufferCalls(st.buffer, cb)
              \o (IF cb THEN <<Call(<<>>, TRUE)>> ELSE <<>>)

IsPayloadCall(c) == c.text # AdvisoryNotice

\* C10: completions: for every way of splitting a response body into chunks
\* the sequence of onResponse calls (texts, done flags, order; the notices of
\* the timer aside) is the one made for the unsplit body.
C10_SplitIndependentCalls ==
  pc = "resolved" => SelectSeq(calls, IsPayloadCall) = UnsplitCalls(payload, onResponse)

\* the number of enqueued chunks of a type
NumType(q, type) == Cardinality({i \in 1..Len(q) : q[i].type = type})

\* C7: response chunk transformer: every chunk with done=true enqueues exactly
\* one LLM_RESPONSE_COMPLETE chunk carrying a usage object, with or without a
\* message in the chunk.
C7_EveryDoneCompletes ==
  /\ NumType(enqueued, "LLM_RESPONSE_COMPLETE")
       = Cardinality({i \in 1..transformed : yielded[i].done})
  /\ \A i \in 1..Len(enqueued) :
       enqueued[i].type = "LLM_RESPONSE_COMPLETE" => enqueued[i].usage # NoUsage

\* C8: response chunk transformer: after a chunk with done=true was transformed
\* every further chunk is discarded and enqueues nothing.
C8_NothingAfterDoneChunk ==
  [][(\E i \in 1..transformed : yielded[i].done) => enqueued' = enqueued]_vars

\* the records createCompletions yields for a body that arrives as one chunk
UnsplitYield(p) ==
  LET g == IF p = <<>> THEN [buffer |-> <<>>, pending |-> <<>>, yielded |-> <<>>]
           ELSE GeneratorChunk([buffer |-> <<>>, pending |-> <<>>, yielded |-> <<>>], p)
  IN g.yielded \o GeneratorFlush(g.buffer)

\* one record per non-blank line of the body that parses, in line order
RECURSIVE RecordsOf(_)
RecordsOf(lines) ==
  IF lines = <<>> THEN <<>>
  ELSE (IF \E i \in 1..Len(Head(lines)) : Head(lines)[i] \notin WS
          THEN (IF JSONParse(Head(lines)).ok THEN <<JSONParse(Head(lines))>> ELSE <<>>)
          ELSE <<>>)
       \o RecordsOf(Tail(lines))

\* C9: createCompletions: for every way of splitting a newline-delimited JSON
\* body into chunks the generator yields the records it yields for the unsplit
\* body: one record per non-blank line that parses, in line order, the final
\* line without "\n" included.
C9_SplitIndependentYield ==
  (cpc = "finished" /\ ~aborted)
    => /\ yielded = UnsplitYield(cpayload)
       /\ yielded = RecordsOf(BodyLines(cpayload))

C9_Witness ==
  /\ cpc = "finished" /\ ~aborted
  /\ creads >= 4
  /\ Len(yielded) = 2
  /\ cpayload[Len(cpayload)] # "\n"
  /\ \E i \in 1..Len(cpayload) : cpayload[i] = "h"

\* C16: createCompletions: the abort signal is checked before every read: once
\* the signal is aborted no step calls reader.read() again (creads counts the
\* calls of reader.read()).
C16_NoReadAfterAbort ==
  [][aborted => creads' = creads]_vars

\* the signal was aborted after a read, the generator finished with part of
\* the body never read
C16_Witness ==
  /\ aborted
  /\ cpc = "finished"
  /\ creads >= 1
  /\ cpos > 0
  /\ cpos < Len(cpayload)

\* C17: OllamaApiClient: a stream cancelled through the abort signal before the
\* server sent a done record still ends with a terminal event: once the
\* generator has finished and every record it yielded was transformed, a
\* completion or error chunk has been enqueued.
C17_CancelledStreamTerminates ==
  (cpc = "finished" /\ aborted /\ Pulled /\ \A i \in 1..Len(yielded) : ~yielded[i].done)
    => \E i \in 1..Len(enqueued) : enqueued[i].type \in {"LLM_RESPONSE_COMPLETE", "ERROR"}

\* C19: completions: the no-activity timer is reset by every successful read,
\* so the timer fires, and the advisory notice is delivered, only when no data
\* arrived since the timer was last armed.
C19_NoticeOnlyWithoutData ==
  [][fires' > fires => ~readSinceArmed]_vars

\* the chunk makes collectWebSearchData of a fresh transformer return data
HasWebSearchData(chunk, p) ==
  chunk.hasMessage /\ collectWebSearchData(chunk, p, FALSE).data # NoWebSearchData

\* C15: response chunk transformer: over any sequence of chunks given to one
\* transformer at most one LLM_WEB_SEARCH_COMPLETE chunk is enqueued.
C15_AtMostOneWebSearchComplete ==
  NumType(enqueued, "LLM_WEB_SEARCH_COMPLETE") <= 1

\* two chunks that both carry web search data were transformed
C15_Witness ==
  /\ cpc = "direct"
  /\ transformed = 2
  /\ HasWebSearchData(yielded[1], provider)
  /\ HasWebSearchData(yielded[2], provider)
  /\ NumType(enqueued, "LLM_WEB_SEARCH_COMPLETE") = 1

\* C20: LocalLLMProvider.models never throws and always returns a non-empty
\* list: after a failed or timed-out request, a status that is not ok, a body
\* without a models array, or an empty array, the list is the default model alone.
C20_ModelsNeverEmpty ==
  /\ mpc \in {"fetch", "json", "resolved"}
  /\ mpc = "resolved"
       => /\ Len(modelList) >= 1
          /\ (\/ mdata.kind \in {"failed", "timeout", "notok", "nomodels", "notarray"}
              \/ (mdata.kind = "array" /\ mdata.models = <<>>))
               => modelList = <<getDefaultModel>>

\* the server answered with an empty models array
C20_Witness ==
  /\ mpc = "resolved"
  /\ mdata.kind = "array"
  /\ mdata.models = <<>>
  /\ modelList = <<getDefaultModel>>

\* the complete lines of a text that are blank or parse, each with its "\n"
RECURSIVE KeepParsing(_)
KeepParsing(lines) ==
  IF lines = <<>> THEN <<>>
  ELSE (IF Trim(Head(lines)) = <<>> \/ JSONParse(Head(lines)).ok
          THEN Head(lines) \o <<"\n">> ELSE <<>>)
       \o KeepParsing(Tail(lines))

\* a text without its complete lines that are no valid JSON; the unfinished
\* last line stays
StripMalformed(text) ==
  LET lines == SplitNL(text) IN
  KeepParsing(SubSeq(lines, 1, Len(lines) - 1)) \o lines[Len(lines)]

HasMalformedLine(text) == StripMalformed(text) # text

\* createCompletions: a read yields what it yields without the malformed lines
C11_Client ==
  /\ (cpc = "read" /\ cpos' > cpos)
       => LET text == cbuffer \o DecodeStream(cpending, SubSeq(cpayload, cpos + 1, cpos')).text
              lines == SplitNL(StripMalformed(text))
          IN HasMalformedLine(text) =>
             /\ yielded' = yielded \o YieldLines(SubSeq(lines, 1, Len(lines) - 1))
             /\ cbuffer' = lines[Len(lines)]
             /\ cpc' = "loop"
  /\ (cpc = "read" /\ cpc' = "finished" /\ Trim(cbuffer) # <<>> /\ ~JSONParse(cbuffer).ok)
       => yielded' = yielded

\* completions: a read makes the calls it makes without the malformed lines
\* (lines left in the buffer behind a done record are compared without them)
C11_Completions ==
  /\ (pc = "reading" /\ pos' > pos)
       => LET text == buffer \o DecodeChunk(SubSeq(payload, pos + 1, pos'))
              st == DrainLines([buffer |-> StripMalformed(text),
                                isFirstChunk |-> isFirstChunk, calls |-> calls], onResponse)
          IN HasMalformedLine(text) =>
             /\ calls' = st.calls
             /\ StripMalformed(buffer') = st.buffer
             /\ isFirstChunk' = st.isFirstChunk
             /\ pc' = "reading"
  /\ (pc = "reading" /\ pc' = "resolved" /\ Trim(buffer) # <<>> /\ ~JSONParse(buffer).ok)
       => calls' = calls \o (IF onResponse THEN <<Call(<<>>, TRUE)>> ELSE <<>>)

\* translate: a read makes the calls it makes without the malformed lines
C11_Translate ==
  /\ (tpc = "reading" /\ tpos' > tpos)
       => LET text == tbuffer \o DecodeChunk(SubSeq(tpayload, tpos + 1, tpos'))
              st == translateDrain([TranslateState EXCEPT !.buffer = StripMalformed(text)])
          IN HasMalformedLine(text) =>
             /\ tcalls' = st.calls
             /\ tbuffer' = st.buffer
             /\ translatedText' = st.text
             /\ isThinking' = st.isThinking
             /\ tpc' = "reading"
  /\ (tpc = "reading" /\ tpc' = "resolved" /\ Trim(tbuffer) # <<>> /\ ~JSONParse(tbuffer).ok)
       => tcalls' = Append(tcalls, Call(translatedText, TRUE))

\* C11: in the read loops of createCompletions, completions and translate of
\* LocalLLMProvider a line that is no valid JSON produces no event and raises
\* nothing, and the later lines are processed: every read does what it does
\* on the same text without its malformed lines, and the call goes on.
C11_MalformedLineSkipped ==
  [][C11_Client /\ C11_Completions /\ C11_Translate]_vars

\* translate resolved on a body whose first line is malformed and whose
\* second line is a record, and delivered the text of that record
C11_Witness ==
  /\ tpc = "resolved"
  /\ tOnResponse
  /\ tpayload = <<"x", "\n", "{", "M", "a", "m", "}", "\n">>
  /\ tcalls = <<Call(<<"a">>, FALSE), Call(<<"a">>, TRUE)>>

\* a call that delivers text: not the final call, not the advisory notice
IsTextDelta(c) == ~c.done /\ IsPayloadCall(c)

ThinkThenVisible == <<"{", "M", "<think>", "b", "</think>", "a", "m", "}">>

\* C12: completions: a record whose content is a complete thinking block
\* followed by visible text yields a single text delta carrying the visible
\* text, and the text inside the block never reaches onResponse.
C12_BlockThenVisibleText ==
  (pc = "resolved" /\ onResponse /\ payload = ThinkThenVisible \o <<"\n">>)
    => /\ Len(SelectSeq(calls, IsTextDelta)) = 1
       /\ Includes(SelectSeq(calls, IsTextDelta)[1].text, "a")
       /\ \A i \in 1..Len(calls) : ~Includes(calls[i].text, "b")

\* the contents of records, one after the other
RECURSIVE ConcatContents(_)
ConcatContents(records) ==
  IF records = <<>> THEN <<>> ELSE Head(records).content \o ConcatContents(Tail(records))

\* every "b" of the characters lies between <think> and the </think> after it
RECURSIVE SecretsTagged(_, _)
SecretsTagged(chars, inside) ==
  IF chars = <<>> THEN ~inside
  ELSE IF Head(chars) = "<think>" THEN SecretsTagged(Tail(chars), TRUE)
  ELSE IF Head(chars) = "</think>" THEN SecretsTagged(Tail(chars), FALSE)
  ELSE IF Head(chars) = "b" /\ ~inside THEN FALSE
  ELSE SecretsTagged(Tail(chars), inside)

\* no record holds both tags: a block opened in a record is closed in a later one
BlocksSpanRecords(records) ==
  \A i \in 1..Len(records) :
    ~(Includes(records[i].content, "<think>") /\ Includes(records[i].content, "</think>"))

\* C13: completions and translate of OllamaProvider: when the opening tag
\* arrives in one record and the closing tag in a later one, no content between
\* the two tags is passed to onResponse.
C13_ThinkingAcrossRecords ==
  /\ (/\ pc = "resolved" /\ onResponse
      /\ BlocksSpanRecords(RecordsOf(BodyLines(payload)))
      /\ SecretsTagged(ConcatContents(RecordsOf(BodyLines(payload))), FALSE))
       => \A i \in 1..Len(calls) : ~Includes(calls[i].text, "b")
  /\ (/\ opc = "resolved" /\ oOnResponse
      /\ BlocksSpanRecords(oparts)
      /\ SecretsTagged(ConcatContents(oparts), FALSE))
       => \A i \in 1..Len(ocalls) : ~Includes(ocalls[i].text, "b")

\* every record carries text and no tag
PlainText(records) ==
  \A i \in 1..Len(records) :
    /\ records[i].hasMessage
    /\ ~records[i].done
    /\ records[i].error = ""
    /\ \A j \in 1..Len(records[i].content) :
         records[i].content[j] \notin {"<think>", "</think>", "<thinking>", "</thinking>"}

\* the non-empty contents of records, in order
RECURSIVE Contents(_)
Contents(records) ==
  IF records = <<>> THEN <<>>
  ELSE (IF Head(records).content # <<>> THEN <<Head(records).content>> ELSE <<>>)
       \o Contents(Tail(records))

\* the texts of the text deltas of calls, in order
RECURSIVE DeltaTexts(_)
DeltaTexts(cs) ==
  IF cs = <<>> THEN <<>>
  ELSE (IF IsTextDelta(Head(cs)) THEN <<Head(cs).text>> ELSE <<>>) \o DeltaTexts(Tail(cs))

\* C14: completions and translate of OllamaProvider: text outside thinking
\* tags reaches onResponse unmodified and in order: for records without tags
\* the text deltas are the contents of the records, character for character.
C14_TextUnmodified ==
  /\ (/\ pc = "resolved" /\ onResponse
      /\ payload # <<>> /\ payload[Len(payload)] = "\n"
      /\ PlainText(RecordsOf(BodyLines(payload))))
       => DeltaTexts(calls) = Contents(RecordsOf(BodyLines(payload)))
  /\ (opc = "resolved" /\ oOnResponse /\ PlainText(oparts))
       => DeltaTexts(ocalls) = Contents(oparts)

\* C18: translate of LocalLLMProvider and of OllamaProvider: with an onResponse
\* callback every call, however it ends, ends with a final onResponse call
\* that has isComplete = true.
C18_FinalCompleteCall ==
  /\ (tpc \in {"resolved", "rejected"} /\ tOnResponse)
       => (tcalls # <<>> /\ tcalls[Len(tcalls)].done)
  /\ (opc \in {"resolved", "rejected"} /\ oOnResponse)
       => (ocalls # <<>> /\ ocalls[Len(ocalls)].done)

\* C21: completions: each time the read loop is about to issue the next read,
\* and when the stream has ended, the partial-line buffer holds no "\n".
C21_BufferHasNoNewline ==
  pc \in {"reading", "resolved"} => ~Includes(buffer, "\n")

\* the body is one record that parses, without a "\n" behind it
OneUnterminatedRecord(p) ==
  /\ p # <<>>
  /\ ~Includes(p, "\n")
  /\ JSONParse(DecodeChunk(p)).ok

\* C22: completions: a non-blank final record without trailing newline is
\* handled as one final line: it makes the onResponse calls the same record
\* followed by a newline makes.
C22_FinalRecordIsALine ==
  (pc = "resolved" /\ onResponse /\ OneUnterminatedRecord(payload))
    => SelectSeq(calls, IsPayloadCall) = UnsplitCalls(payload \o <<"\n">>, TRUE)

IsErrorNotice(c) == c.text = ErrorNotice("e")

\* the body is a record with an error field followed by a record with text
ErrorThenText(p) ==
  LET recs == RecordsOf(BodyLines(p)) IN
  /\ Len(recs) = 2
  /\ recs[1].error # "" /\ ~recs[1].done
  /\ PlainText(<<recs[2]>>) /\ recs[2].content # <<>>

\* C23: completions: a record with an error field that is followed by more
\* records yields exactly one non-terminal call carrying the error text, and
\* the records after it are still processed: the text record behind it yields
\* its text delta.
C23_ErrorMidStream ==
  (pc = "resolved" /\ onResponse /\ ErrorThenText(payload))
    => /\ Len(SelectSeq(calls, IsErrorNotice)) = 1
       /\ \A i \in 1..Len(calls) : IsErrorNotice(calls[i]) => ~calls[i].done
       /\ \E i \in 1..Len(calls) : IsTextDelta(calls[i]) /\ ~IsErrorNotice(calls[i])

\* the last record of the body carries an error field
LastRecordIsError(p) ==
  LET recs == RecordsOf(BodyLines(p)) IN
  recs # <<>> /\ recs[Len(recs)].error # ""

\* C24: completions: when the last record of the stream carries an error
\* field the terminal call is an error: the call with done = true carries the
\* error text, not an empty completion.
C24_TerminalError ==
  (pc = "resolved" /\ onResponse /\ LastRecordIsError(payload))
    => /\ calls # <<>>
       /\ calls[Len(calls)].done
       /\ Includes(calls[Len(calls)].text, "e")

\* the text delta carries the text (the blank in front of the first delta aside)
Carries(text, expected) == text = expected \/ text = <<" ">> \o expected

\* the body is one record, with or without "\n" behind it, that has text in
\* message.content or in response
OneTextRecord(p) ==
  LET recs == RecordsOf(BodyLines(p)) IN
  /\ Len(recs) = 1
  /\ Len(SelectSeq(BodyLines(p), LAMBDA l : Trim(l) # <<>>)) = 1
  /\ recs[1].error = "" /\ ~recs[1].done
  /\ \/ recs[1].hasMessage /\ recs[1].content # <<>> /\ PlainText(recs)
     \/ ~recs[1].hasMessage /\ recs[1].response # ""

\* the text the record supplies: message.content when a message is present,
\* otherwise the legacy response field
RecordText(rec) == IF rec.hasMessage THEN rec.content ELSE <<rec.response>>

\* C26: completions: for each record exactly one of message.content or
\* response supplies its text, message.content when a message is present,
\* otherwise response; alike on a complete line and for the final record
\* without "\n": a body of one such record yields one text delta with that text.
C26_OneTextSource ==
  (pc = "resolved" /\ onResponse /\ OneTextRecord(payload))
    => /\ Len(DeltaTexts(calls)) = 1
       /\ Carries(DeltaTexts(calls)[1], RecordText(RecordsOf(BodyLines(payload))[1]))

\* every record of the body carries an error field
AllErrorRecords(p) ==
  LET recs == RecordsOf(BodyLines(p)) IN
  recs # <<>> /\ \A i \in 1..Len(recs) : recs[i].error # ""

CarriesErrorText(c) == Includes(c.text, "e")

\* each error record was surfaced and nothing else was delivered as text
ErrorsSurfaced(cs, p) ==
  /\ Len(SelectSeq(cs, CarriesErrorText)) = Len(RecordsOf(BodyLines(p)))
  /\ \A i \in 1..Len(cs) : CarriesErrorText(cs[i]) \/ cs[i].text = <<>>
                             \/ cs[i].text = AdvisoryNotice

\* C25: read loops of completions and translate of LocalLLMProvider: every
\* record that carries an error field is surfaced to the consumer with the
\* error text, and none of its content fields is delivered as text, also when
\* the record has done = true.
C25_ErrorFieldSurfaced ==
  /\ (pc = "resolved" /\ onResponse /\ AllErrorRecords(payload))
       => ErrorsSurfaced(calls, payload)
  /\ (tpc = "resolved" /\ tOnResponse /\ AllErrorRecords(tpayload))
       => ErrorsSurfaced(tcalls, tpayload)

\* the body is a content split into message records, one per line
ContentInRecords(p) ==
  LET recs == RecordsOf(BodyLines(p)) IN
  /\ recs # <<>>
  /\ Len(SelectSeq(BodyLines(p), LAMBDA l : Trim(l) # <<>>)) = Len(recs)
  /\ \A i \in 1..Len(recs) :
       /\ recs[i].hasMessage /\ recs[i].content # <<>>
       /\ ~recs[i].done /\ recs[i].error = ""

\* C27: translate of LocalLLMProvider: for a content with thinking tags split
\* into stream records at any positions, the text returned in streaming mode
\* is the text returned in non-streaming mode for the concatenated content.
C27_StreamingEqualsOnePass ==
  (tpc = "resolved" /\ tOnResponse /\ ContentInRecords(tpayload))
    => treturned = filterThinkingContent(ConcatContents(RecordsOf(BodyLines(tpayload))))

\* the characters delivered by a read of translate hold no thinking tag
NoTagIn(chars) == ~Includes(chars, "<think>") /\ ~Includes(chars, "</think>")

\* C29: streaming mode of translate of LocalLLMProvider: isThinking changes
\* only on a record containing <think> or </think>, and the content of a
\* record processed while isThinking is true is neither appended to the
\* translated text nor passed to onResponse, the final record left in the
\* buffer at end of stream included.
C29_ThinkingContentDiscarded ==
  [][/\ (tpc = "reading" /\ tpos' > tpos
           /\ NoTagIn(tbuffer \o DecodeChunk(SubSeq(tpayload, tpos + 1, tpos'))))
          => /\ isThinking' = isThinking
             /\ isThinking => (translatedText' = translatedText
                               /\ SelectSeq(tcalls', IsTextDelta) = SelectSeq(tcalls, IsTextDelta))
     /\ (tpc = "reading" /\ tpc' = "resolved")
          => /\ isThinking' = isThinking
             /\ isThinking => (translatedText' = translatedText
                               /\ SelectSeq(tcalls', IsTextDelta) = SelectSeq(tcalls, IsTextDelta))
  ]_vars

\* t is the end of s
EndsWith(s, t) == Len(t) <= Len(s) /\ SubSeq(s, Len(s) - Len(t) + 1, Len(s)) = t

\* the content has two lines: the first opens and closes a thinking block,
\* the second is text without tags
BlockLineThenText(content) ==
  LET lines == SplitNL(content) IN
  /\ Len(lines) = 2
  /\ Includes(lines[1], "<think>") /\ Includes(lines[1], "</think>")
  /\ IndexOf(lines[1], "<think>") < IndexOf(lines[1], "</think>")
  /\ NoTagIn(lines[2])
  /\ Trim(lines[2]) # <<>>

\* C28: filterThinkingContent of LocalLLMProvider: a line that contains both
\* the opening and the closing tag leaves the filter outside the thinking
\* block, so the line after it is passed through to the result.
C28_BlockOnOneLineCloses ==
  (tpc = "resolved" /\ ~tOnResponse /\ BlockLineThenText(JSONParse(DecodeChunk(tpayload)).content))
    => EndsWith(treturned, Trim(SplitNL(JSONParse(DecodeChunk(tpayload)).content)[2]))

\* the contents the filter of OllamaProvider is tried on
OllamaContents ==
  SeqsUpTo({"a", " ", "<think>", "</think>", "<thinking>", "</thinking>"}, MaxContent)

\* C30: OllamaProvider: filterThinkingContent never returns the empty string,
\* for an input that is empty or empty after the tagged blocks are removed it
\* returns a single space; translate never returns an empty string and never
\* reports one in its final onResponse call.
C30_NeverEmpty ==
  /\ opc = "chat"
       => \A c \in OllamaContents :
            /\ ollamaFilterThinkingContent(c) # <<>>
            /\ Trim(RemoveTagged(c)) = <<>> => ollamaFilterThinkingContent(c) = <<" ">>
  /\ \A i \in 1..Len(oparts) : ollamaFilterThinkingContent(oparts[i].content) # <<>>
  /\ opc = "resolved" => oreturned # <<>>
  /\ \A i \in 1..Len(ocalls) : ocalls[i].done => ocalls[i].text # <<>>

\* a stream whose only part is a thinking block ended
C30_Witness ==
  /\ opc = "resolved"
  /\ oOnResponse
  /\ oparts = <<Part(TRUE, <<"<thinking>", "b", "</thinking>">>)>>
  /\ ocalls = <<Call(<<" ">>, FALSE), Call(<<" ">>, TRUE)>>
  /\ oreturned = <<" ">>

\* the annotations of a chunk: those of its message when it has any,
\* otherwise those beside the message
RuleAnnotations(chunk) ==
  IF chunk.msgAnnotations # "none" THEN chunk.msgAnnotations ELSE chunk.annotations

\* the source tag of the provider's own rule when the chunk matches it
OwnRuleSource(chunk, p) ==
  CASE p = "grok" /\ chunk.citations # "none" -> "GROK"
    [] p = "perplexity" /\ chunk.citations = "some" -> "PERPLEXITY"
    [] p = "openrouter" /\ chunk.citations = "some" -> "OPENROUTER"
    [] p = "zhipu" /\ chunk.web_search -> "ZHIPU"
    [] p = "hunyuan" /\ chunk.search_results -> "HUNYUAN"
    [] OTHER -> "none"

\* the source of the first rule that matches
FirstRuleSource(chunk, p) ==
  IF RuleAnnotations(chunk) = "url_citation" THEN "OPENAI" ELSE OwnRuleSource(chunk, p)

\* the sources of the web search events among chunks
RECURSIVE WebSources(_)
WebSources(q) ==
  IF q = <<>> THEN <<>>
  ELSE (IF Head(q).type = "LLM_WEB_SEARCH_COMPLETE"
          THEN <<Head(q).llm_web_search.source>> ELSE <<>>)
       \o WebSources(Tail(q))

C34_NoTimerAfterSettle ==
  pc \in {"resolved", "rejected"} => ~noResponseTimeout

\* C35: once the abort signal has been observed by the loop test and the read
\* loop has been left because of it, the generator yields no further record
C35_NoYieldAfterAbort ==
  [][(cpc = "loop" /\ Pulled /\ aborted /\ cpc' = "finished") => yielded' = yielded]_vars

\* the onResponse calls of translate made with isComplete = true
CompleteCalls(cs) == SelectSeq(cs, LAMBDA c : c.done)

\* C39: a streaming translate that returns normally has called onResponse with
\* isComplete = true exactly once, as its last call, with the text it returns
C39_OneCompleteCallLast ==
  (tpc = "resolved" /\ tOnResponse)
    => /\ Len(CompleteCalls(tcalls)) = 1
       /\ tcalls[Len(tcalls)] = Call(treturned, TRUE)

\* the field of the argument is kept as given when present, and replaced by
\* the default only when absent
KeptStr(a, got, default) == got = (IF a.present THEN a.str ELSE default)

KeptNum(a, got, default) == got = (IF a.present THEN a.num ELSE default)

\* C33: the constructors keep every supplied value of apiBaseUrl, defaultModel,
\* maxTokens and temperature as given (temperature 0 and maxTokens 0 included)
\* and substitute a default only for an absent value
C33_SuppliedValuesKept ==
  ctorPc = "built"
    => /\ KeptStr(ctorArg.apiBaseUrl, config.apiBaseUrl, DefaultApiBaseUrl)
       /\ KeptStr(ctorArg.defaultModel, config.defaultModel, DefaultModel(ctorClass))
       /\ KeptNum(ctorArg.maxTokens, config.maxTokens, DefaultMaxTokens)
       /\ KeptNum(ctorArg.temperature, config.temperature, DefaultTemperature)

\* C38: when an exception is raised inside the try block of completions of
\* OllamaProvider, the consumer has received an ERROR chunk through onChunk and
\* a final onResponse call with isComplete = true when completions rejects
C38_ErrorChunkBeforeRethrow ==
  gpc = "rejected"
    => /\ gOnChunk => (gchunks # <<>> /\ gchunks[Len(gchunks)] = "ERROR")
       /\ gOnResponse => (gcalls # <<>> /\ gcalls[Len(gcalls)].done)

\* the calls of downloadModel for a model whose pull is in flight
InFlightCalls(ds, modelId) ==
  {i \in 1..Len(ds) : ds[i].modelId = modelId /\ InFlight(ds[i])}

\* C36: at most one pull is in flight per model id, and a call of
\* downloadModel made while the model is downloading issues no pull, reports
\* no progress and leaves the progress entry of the model unchanged
C36_OnePullPerModel ==
  [][/\ \A m \in ModelIds : Cardinality(InFlightCalls(downloads', m)) <= 1
     /\ \A i \in 1..Len(downloads') :
          LET call == downloads'[i] IN
          (i > Len(downloads) /\ InFlightCalls(downloads, call.modelId) # {})
            => /\ call.pc = "returned"
               /\ modelDownloadProgress' = modelDownloadProgress
     /\ \A i \in 1..Len(downloads') :
          downloads'[i].pc = "returned" => downloads'[i].reported = <<>>
  ]_vars

\* a second call for a model came while its pull was streaming
C36_Witness ==
  /\ Len(downloads) = 2
  /\ downloads[1].modelId = downloads[2].modelId
  /\ downloads[1].pc = "streaming"
  /\ downloads[1].reported # <<>>
  /\ downloads[2].pc = "returned"
  /\ downloads[2].onProgress

\* C37: a model id has an entry in modelDownloadProgress exactly while a pull
\* for it is in flight; the entry is 0 until the pull has started, and it is
\* gone when the pull has completed or failed
C37_EntryWhilePulling ==
  /\ \A m \in ModelIds :
       MapHas(modelDownloadProgress, m) <=> InFlightCalls(downloads, m) # {}
  /\ \A i \in 1..Len(downloads) :
       downloads[i].pc = "pulling" => modelDownloadProgress[downloads[i].modelId] = 0

\* a pull failed after it reported progress, and the entry is gone
C37_Witness ==
  /\ Len(downloads) >= 1
  /\ downloads[1].pc = "rejected"
  /\ downloads[1].parts > 0
  /\ ~MapHas(modelDownloadProgress, downloads[1].modelId)

\* C32: the flag belongs to one stream: a stream that has emitted no
\* web-search event yet emits one for a chunk that matches a rule, whatever
\* the other streams built from the same function have emitted
C32_FlagPerStream ==
  [][\A i \in 1..Len(streams) :
       LET before == streams[i]
           after == streams'[i]
           chunk == after.given[Len(after.given)]
       IN (/\ Len(after.given) = Len(before.given) + 1
           /\ WebSources(before.enqueued) = <<>>
           /\ chunk.hasMessage
           /\ FirstRuleSource(chunk, before.provider) # "none")
            => WebSources(after.enqueued) # <<>>
  ]_vars

====
